---- MODULE Spec2Model ----
(***************************************************************************)
(* Model of the mahjong rules engine (src/mahjong): tiles, meld validators, *)
(* the winning-hand (Wu) engine with its flag derivation, and the           *)
(* generator-driven Hand/Turn state machine of game.py.                     *)
(*                                                                          *)
(* A tile is the integer  suit * 10 + number  (number 0-based, as in        *)
(* tiles.py).  A meld is a record [type, tiles]; a Wu is a meld record      *)
(* with the extra fields of class Wu.  A WuFlag value is the set of the     *)
(* names of its bits.                                                       *)
(***************************************************************************)
EXTENDS Integers, Sequences, FiniteSets, TLC

\* ------------------------------------------------------------------ tiles

\* tiles.py ORDER: suit-group rank of the five meldable suits
WAN == 0
TONG == 1
ZHU == 2
FENG == 3
LONG == 4
\* the two Bonuses suits (not in ORDER)
HUA == 5
GUI == 6

Simples == {WAN, TONG, ZHU}
Honors == {FENG, LONG}
Bonuses == {HUA, GUI}

Tile(suit, number) == suit * 10 + number
SuitOf(t) == t \div 10
NumberOf(t) == t % 10

\* Tile.__lt__
TileLt(a, b) ==
    IF SuitOf(a) = SuitOf(b) THEN NumberOf(a) < NumberOf(b)
    ELSE IF SuitOf(a) \in Bonuses \/ SuitOf(b) \in Bonuses THEN FALSE
    ELSE SuitOf(a) < SuitOf(b)

\* sorted(tiles)
SortTiles(ts) == SortSeq(ts, TileLt)

Range(s) == {s[i] : i \in 1..Len(s)}

\* list.remove(x): drop the first element equal to x
RemoveFirst(s, x) ==
    LET i == CHOOSE k \in 1..Len(s) : s[k] = x /\ \A j \in 1..(k-1) : s[j] # x
    IN  SubSeq(s, 1, i-1) \o SubSeq(s, i+1, Len(s))

RECURSIVE RemoveAll(_, _)
\* remove each element of xs once from s (repeated list.remove)
RemoveAll(s, xs) ==
    IF xs = <<>> THEN s ELSE RemoveAll(RemoveFirst(s, Head(xs)), Tail(xs))

\* ------------------------------------------------------------------ melds

\* Meld.check_meld: the size check and the bonus-tile check
CheckBase(ts, size) ==
    /\ Len(ts) = size
    /\ \A i \in 1..Len(ts) : SuitOf(ts[i]) \notin Bonuses

\* Meld.check_suit
CheckSuit(ts) == \A i \in 2..Len(ts) : SuitOf(ts[i]) = SuitOf(ts[1])

\* _SameNum.check_meld / check_num
CheckSameNum(ts, size) ==
    /\ CheckBase(ts, size)
    /\ CheckSuit(ts)
    /\ \A i \in 2..Len(ts) : NumberOf(ts[i]) = NumberOf(ts[1])

PongOk(tiles) == \E ts \in {SortTiles(tiles)} : CheckSameNum(ts, 3)
KongOk(tiles) == \E ts \in {SortTiles(tiles)} : CheckSameNum(ts, 4)
EyesOk(tiles) == \E ts \in {SortTiles(tiles)} : CheckSameNum(ts, 2)

\* Chow.check_meld on the tiles as supplied
ChowOkUnsorted(tiles) ==
    LET ts == tiles IN
    /\ CheckBase(ts, 3)
    /\ CheckSuit(ts)
    /\ SuitOf(ts[1]) \in Simples
    /\ \A i \in 1..Len(ts) : NumberOf(ts[i]) = NumberOf(ts[1]) + (i - 1)

\* Chow.check_meld
ChowOk(tiles) ==
    \E ts \in {SortTiles(tiles)} :
    /\ CheckBase(ts, 3)
    /\ CheckSuit(ts)
    /\ SuitOf(ts[1]) \in Simples
    /\ \A i \in 1..Len(ts) : NumberOf(ts[i]) = NumberOf(ts[1]) + (i - 1)

\* Meld.__init__: the tiles are kept sorted
Meld(type, tiles) == [type |-> type, tiles |-> SortTiles(tiles)]
Pong(tiles) == Meld("Pong", tiles)
Kong(tiles) == Meld("Kong", tiles)
Chow(tiles) == Meld("Chow", tiles)
Eyes(tiles) == Meld("Eyes", tiles)

\* the absent meld / failed construction (Python None)
NoMeld == [type |-> "None"]
\* an absent tile and an absent seat (Python None)
NoTile == -1
NoSeat == -1

\* Meld.__eq__: same class and same tiles (hash of (type,) + tiles)
MeldEq(a, b) == a.type = b.type /\ a.tiles = b.tiles

\* position in  order = [Wu, Kong, Pong, Chow, Eyes]
OrderIndex(type) ==
    CASE type = "Wu" -> 0
      [] type = "Kong" -> 1
      [] type = "Pong" -> 2
      [] type = "Chow" -> 3
      [] type = "Eyes" -> 4

\* tuple.__lt__ on tile tuples: the first differing position decides,
\* a proper prefix is smaller
TilesLt(a, b) ==
    LET n == IF Len(a) < Len(b) THEN Len(a) ELSE Len(b)
        diff == {i \in 1..n : a[i] # b[i]}
    IN  IF diff = {} THEN Len(a) < Len(b)
        ELSE LET i == CHOOSE k \in diff : \A j \in diff : k <= j
             IN  TileLt(a[i], b[i])

\* Meld.__lt__
MeldLt(a, b) ==
    IF a.type # b.type THEN OrderIndex(a.type) > OrderIndex(b.type)
    ELSE TilesLt(a.tiles, b.tiles)

\* sorted(melds) / list.sort()
SortMelds(ms) == SortSeq(ms, MeldLt)

\* Wu.get_triplet
GetTriplet(trip) ==
    IF PongOk(trip) THEN Pong(trip)
    ELSE IF ChowOk(trip) THEN Chow(trip)
    ELSE NoMeld

\* --------------------------------------------------------------- Wu engine

\* melds.py THIRTEEN_ORPHANS
THIRTEEN_ORPHANS ==
    { Tile(TONG, 0), Tile(TONG, 8), Tile(ZHU, 0), Tile(ZHU, 8),
      Tile(WAN, 0), Tile(WAN, 8),
      Tile(FENG, 0), Tile(FENG, 1), Tile(FENG, 2), Tile(FENG, 3),
      Tile(LONG, 0), Tile(LONG, 1), Tile(LONG, 2) }

RECURSIVE FlattenTiles(_)
\* the tiles of a list of melds, in order
FlattenTiles(ms) ==
    IF ms = <<>> THEN <<>> ELSE Head(ms).tiles \o FlattenTiles(Tail(ms))

\* Wu.all_tiles
AllTiles(tiles, fixed) == SortTiles(tiles \o FlattenTiles(fixed))

\* TripEntry with the Kong search looking at every other index, not only at
\* the indexes after t3
TripEntryKongAnywhere(ts, t1, t2, t3) ==
    LET tc == Len(ts)
        meld == GetTriplet(<<ts[t1], ts[t2], ts[t3]>>)
        t4s == {t4 \in (1..tc) \ {t1, t2, t3} : KongOk(<<ts[t1], ts[t2], ts[t3], ts[t4]>>)}
    IN  IF meld.type = "Pong" /\ t4s # {}
        THEN LET t4 == CHOOSE k \in t4s : \A j \in t4s : k <= j
             IN  [meld |-> Kong(<<ts[t1], ts[t2], ts[t3], ts[t4]>>),
                  idxs |-> {t1, t2, t3, t4}]
        ELSE [meld |-> meld, idxs |-> {t1, t2, t3}]

\* Wu.all_melds_pos, one index triple t1 < t2 < t3 of ts: the entry written
\* to `trips` (the meld and the 1-based indexes of its tiles), with
\* meld = NoMeld if none is written.  A Pong whose last index is not the
\* last tile is replaced by the Kong reaching to the first later equal tile.
TripEntry(ts, t1, t2, t3) ==
    LET tc == Len(ts)
        meld == GetTriplet(<<ts[t1], ts[t2], ts[t3]>>)
        t4s == {t4 \in (t3+1)..tc : KongOk(<<ts[t1], ts[t2], ts[t3], ts[t4]>>)}
    IN  IF meld.type = "Pong" /\ t3 < tc /\ t4s # {}
        THEN LET t4 == CHOOSE k \in t4s : \A j \in t4s : k <= j
             IN  [meld |-> Kong(<<ts[t1], ts[t2], ts[t3], ts[t4]>>),
                  idxs |-> {t1, t2, t3, t4}]
        ELSE [meld |-> meld, idxs |-> {t1, t2, t3}]

\* Wu.all_melds_pos(ts) for the sorted list ts it is called with.  The code
\* tries every index triple; get_triplet returns None unless neighbours in
\* the sorted triple share a suit and differ by at most one in number, so
\* only those triples are visited here.
AllMeldsPos(ts) ==
    LET tc == Len(ts)
        Near(i, j) == /\ SuitOf(ts[i]) = SuitOf(ts[j])
                      /\ NumberOf(ts[j]) - NumberOf(ts[i]) \in {0, 1}
        triples ==
            UNION { UNION { { <<t1, t2, t3>> : t3 \in {k \in (t2+1)..tc : Near(t2, k)} }
                            : t2 \in {j \in (t1+1)..tc : Near(t1, j)} }
                    : t1 \in 1..tc }
    IN  UNION { LET e == TripEntry(ts, t[1], t[2], t[3])
                IN  IF e.meld.type = "None" THEN {} ELSE {e}
                : t \in triples }

RECURSIVE Covers(_, _, _)
\* The combinations of k entries of `possible` that valid_combos keeps:
\* no index used twice and every index of `uncovered` used; each is given
\* as the list of its melds.  The code filters combinations(possible, k);
\* the search below builds only the index-disjoint ones, lowest uncovered
\* index first, which is the same set.
Covers(possible, k, uncovered) ==
    IF k = 0 THEN (IF uncovered = {} THEN {<<>>} ELSE {})
    ELSE IF uncovered = {} THEN {}
    ELSE LET i == CHOOSE m \in uncovered : \A j \in uncovered : m <= j
         IN  UNION { UNION { { <<e.meld>> \o c : c \in Covers(possible, k - 1, rest) }
                             : rest \in {{x \in uncovered : x \notin e.idxs}} }
                     : e \in {d \in possible : i \in d.idxs /\ d.idxs \subseteq uncovered} }

\* the (e1, e2) pairs valid_combos tries: a valid Eyes not `checked` before,
\* i.e. the first index pair (in the order of combinations) of each tile
EyesPairs(tiles) ==
    LET tc == Len(tiles)
    IN  { p \in (1..tc) \X (1..tc) :
            /\ p[1] < p[2]
            /\ {k \in 1..(p[2] - 1) : tiles[k] = tiles[p[2]]} = {p[1]}
            /\ EyesOk(<<tiles[p[1]], tiles[p[2]]>>) }

\* _UncheckedWu(self.tiles)
UncheckedWu(tiles) == [type |-> "_UncheckedWu", tiles |-> SortTiles(tiles)]

\* Wu.valid_combos followed by the canonicalisation of Wu.check_meld:
\* the set of sorted meld lists.  `tiles` is sorted.
ValidCombos(tiles, fixed) ==
    LET tc == Len(tiles)
        need == 4 - Len(fixed)
        ForEyes(p) ==
            LET eyes == Eyes(<<tiles[p[1]], tiles[p[2]]>>)
            IN  IF need < 0 THEN {}
                ELSE UNION { UNION { { SortMelds(c \o fixed \o <<eyes>>) :
                                         c \in Covers(possible, need, 1..(tc - 2)) }
                                     : possible \in {AllMeldsPos(ts)} }
                             : ts \in { SubSeq(tiles, 1, p[1] - 1)
                                          \o SubSeq(tiles, p[1] + 1, p[2] - 1)
                                          \o SubSeq(tiles, p[2] + 1, tc) } }
        normal == UNION { ForEyes(p) : p \in EyesPairs(tiles) }
        orphans == IF Range(tiles) = THIRTEEN_ORPHANS
                   THEN { <<UncheckedWu(tiles)>> } ELSE {}
    IN  normal \cup orphans

\* Wu.size = range(14, 19)
WuSizeMin == 14
WuSizeMax == 18

\* Meld.check_size for a Wu, and the bonus check of Meld.check_meld
WuSizeOk(tiles, fixed) ==
    /\ Len(tiles) + Len(FlattenTiles(fixed)) >= WuSizeMin
    /\ Len(tiles) + Len(FlattenTiles(fixed)) <= WuSizeMax
    /\ \A i \in 1..Len(tiles) : SuitOf(tiles[i]) \notin Bonuses

\* Wu.check_meld: self.melds, empty where the code raises ValueError
CheckWu(tiles, fixed) ==
    UNION { IF WuSizeOk(ts, fixed) THEN ValidCombos(ts, fixed) ELSE {}
            : ts \in {SortTiles(tiles)} }

\* the Wu object of Wu.__init__ once check_meld has found `melds`
WuObject(tiles, fixed, arrived, discarder, flags, melds) ==
    IF melds = {} THEN NoMeld
    ELSE [type |-> "Wu", tiles |-> SortTiles(tiles), fixed_melds |-> fixed,
          arrived |-> arrived, discarder |-> discarder,
          base_flags |-> flags, melds |-> melds]

\* Wu(tiles, melds, arrived, discarder, flags): the Wu, or NoMeld where the
\* code raises ValueError
Wu(tiles, fixed, arrived, discarder, flags) ==
    WuObject(tiles, fixed, arrived, discarder, flags, CheckWu(tiles, fixed))

\* ------------------------------------------------------------------ flags

\* `all_one_suit = False` of Wu.flags: assigned once and never again
all_one_suit == FALSE

\* SuitFlags with the honor tiles left out of the scan
SuitFlagsHonorsIgnored(all_tiles) ==
    LET suits == {SuitOf(all_tiles[i]) : i \in 1..Len(all_tiles)} \ Honors
    IN  IF Cardinality(suits) > 1 THEN {}
        ELSE IF suits = {} THEN {"ALL_HONOR_TILES"}
        ELSE {"ALL_ONE_SUIT"}

\* the suit scan of Wu.flags (for tile in all_tiles ... else): the type
\* flag it adds, if any
SuitFlags(all_tiles) ==
    LET hon == \E i \in 1..Len(all_tiles) : SuitOf(all_tiles[i]) \in Honors
        suits == {SuitOf(all_tiles[i]) : i \in 1..Len(all_tiles)} \ Honors
    IN  IF Cardinality(suits) > 1 THEN {}
        ELSE IF hon /\ suits = {} THEN {"ALL_HONOR_TILES"}
        ELSE IF ~hon THEN {"ALL_ONE_SUIT"}
        ELSE {"MIXED_ONE_SUIT"}

\* the long / feng tables of Wu.flags: the meld type last written for
\* honor tile (suit, number), "" if none
HonorSlot(choice, suit, number) ==
    LET hits == {i \in 1..Len(choice) :
                    /\ choice[i].type # "Chow"
                    /\ SuitOf(choice[i].tiles[1]) = suit
                    /\ NumberOf(choice[i].tiles[1]) = number}
    IN  IF hits = {} THEN ""
        ELSE choice[CHOOSE k \in hits : \A j \in hits : j <= k].type

DragonFlags(choice) ==
    LET long == [n \in 0..2 |-> HonorSlot(choice, LONG, n)]
    IN  IF \A n \in 0..2 : long[n] # ""
        THEN (IF \A n \in 0..2 : long[n] # "Eyes"
              THEN {"GREAT_DRAGONS"} ELSE {"SMALL_DRAGONS"})
        ELSE {}

WindFlags(choice) ==
    LET feng == [n \in 0..3 |-> HonorSlot(choice, FENG, n)]
    IN  IF \A n \in 0..3 : feng[n] # ""
        THEN (IF \A n \in 0..3 : feng[n] # "Eyes"
              THEN {"GREAT_WINDS"} ELSE {"SMALL_WINDS"})
        ELSE {}

\* the SELF_TRIPLETS test of Wu.flags, given the flags gathered so far
SelfTripletsFlags(wu, choice, types) ==
    IF /\ wu.fixed_melds = <<>>
       /\ "ALL_IN_TRIPLETS" \in types
       /\ \/ "SELF_DRAW" \in types
          \/ /\ wu.arrived # NoTile
             /\ \A i \in 1..Len(choice) :
                   choice[i].type # "Eyes" => wu.arrived \notin Range(choice[i].tiles)
             /\ \A i \in 1..Len(choice) :
                   choice[i].type = "Eyes" => wu.arrived \in Range(choice[i].tiles)
    THEN {"SELF_TRIPLETS"} ELSE {}

\* the ORPHANS loop of Wu.flags
OrphansFlags(choice) ==
    IF \A i \in 1..Len(choice) :
          /\ choice[i].type # "Chow"
          /\ SuitOf(choice[i].tiles[1]) \in Simples
          /\ NumberOf(choice[i].tiles[1]) \in {0, 8}
    THEN {"ORPHANS"} ELSE {}

\* the NINE_GATES template of Wu.flags
NineGatesFlags(all_tiles) ==
    LET goals == <<3, 1, 1, 1, 1, 1, 1, 1, 3>>
        counts == [n \in 0..8 |->
                     Cardinality({i \in 1..Len(all_tiles) : NumberOf(all_tiles[i]) = n})]
        exact == \A n \in 0..8 : counts[n] = goals[n + 1] \/ counts[n] = goals[n + 1] + 1
        diff == Cardinality({n \in 0..8 : counts[n] = goals[n + 1] + 1})
    IN  IF all_one_suit /\ SuitOf(all_tiles[1]) \in Simples /\ exact /\ diff = 1
        THEN {"NINE_GATES"} ELSE {}

\* absent `winds` argument
NoWinds == <<>>

\* the `favorable` table of Wu.flags
FavorableFlags(choice, winds) ==
    LET favorable ==
            { <<Tile(LONG, 0), "RED_DRAGON">>, <<Tile(LONG, 1), "GREEN_DRAGON">>,
              <<Tile(LONG, 2), "WHITE_DRAGON">> }
            \cup (IF winds = NoWinds THEN {}
                  ELSE { <<Tile(FENG, winds[1]), "SEAT_WIND">>,
                         <<Tile(FENG, winds[2]), "PREVAILING_WIND">> })
    IN  { f[2] : f \in { g \in favorable :
                           \E i \in 1..Len(choice) : choice[i].tiles[1] = g[1] } }

\* the MIXED_ORPHANS loop of Wu.flags
MixedOrphansFlags(all_tiles) ==
    IF \A i \in 1..Len(all_tiles) :
          \/ SuitOf(all_tiles[i]) \in Honors
          \/ NumberOf(all_tiles[i]) \in {0, 8}
    THEN {"MIXED_ORPHANS"} ELSE {}

\* Suppressed with SELF_TRIPLETS clearing ALL_FROM_WALL only
SuppressedSelfTripletsPartial(trigger) ==
    CASE trigger = "SMALL_WINDS" -> {"SEAT_WIND", "PREVAILING_WIND"}
      [] trigger = "SELF_TRIPLETS" -> {"ALL_FROM_WALL"}
      [] trigger = "ALL_HONOR_TILES" -> {"ALL_IN_TRIPLETS"}
      [] trigger = "ORPHANS" -> {"ALL_IN_TRIPLETS"}
      [] trigger = "NINE_GATES" -> {"ALL_ONE_SUIT", "ALL_FROM_WALL"}
      [] trigger = "THIRTEEN_ORPHANS" -> {"MIXED_ORPHANS", "ORPHANS"}

\* the flags Wu.flags removes for one trigger flag (the `unset flags` block)
Suppressed(trigger) ==
    CASE trigger = "SMALL_WINDS" -> {"SEAT_WIND", "PREVAILING_WIND"}
      [] trigger = "SELF_TRIPLETS" -> {"ALL_FROM_WALL", "ALL_IN_TRIPLETS"}
      [] trigger = "ALL_HONOR_TILES" -> {"ALL_IN_TRIPLETS"}
      [] trigger = "ORPHANS" -> {"ALL_IN_TRIPLETS"}
      [] trigger = "NINE_GATES" -> {"ALL_ONE_SUIT", "ALL_FROM_WALL"}
      [] trigger = "THIRTEEN_ORPHANS" -> {"MIXED_ORPHANS", "ORPHANS"}

\* the order in which the `unset flags` block tests its triggers
SuppressOrder ==
    << "SMALL_WINDS", "SELF_TRIPLETS", "ALL_HONOR_TILES", "ORPHANS",
       "NINE_GATES", "THIRTEEN_ORPHANS" >>

RECURSIVE Unset(_, _)
\* apply the `unset flags` block from trigger number i on
Unset(types, i) ==
    IF i > Len(SuppressOrder) THEN types
    ELSE IF SuppressOrder[i] \in types
         THEN Unset(types \ Suppressed(SuppressOrder[i]), i + 1)
         ELSE Unset(types, i + 1)

\* Wu.flags before the `unset flags` block
RawFlags(wu, choice, winds) ==
    LET all_tiles == CHOOSE ts \in {AllTiles(wu.tiles, wu.fixed_melds)} : TRUE
        t1 == wu.base_flags
              \cup (IF \A i \in 1..Len(choice) : choice[i].type \in {"Chow", "Eyes"}
                    THEN {"COMMON_HAND"} ELSE {})
              \cup (IF \A i \in 1..Len(choice) : choice[i].type \in {"Pong", "Kong", "Eyes"}
                    THEN {"ALL_IN_TRIPLETS"} ELSE {})
              \cup SuitFlags(all_tiles)
              \cup DragonFlags(choice)
              \cup WindFlags(choice)
              \cup (IF Len(choice) = 1 THEN {"THIRTEEN_ORPHANS"} ELSE {})
              \cup (IF \A i \in 1..Len(choice) : choice[i].type \in {"Kong", "Eyes"}
                    THEN {"ALL_KONGS"} ELSE {})
        t2 == t1 \cup SelfTripletsFlags(wu, choice, t1)
    IN  t2 \cup OrphansFlags(choice)
           \cup NineGatesFlags(all_tiles)
           \cup FavorableFlags(choice, winds)
           \cup MixedOrphansFlags(all_tiles)
           \cup (IF wu.fixed_melds = <<>> THEN {"ALL_FROM_WALL"} ELSE {})

\* Wu.flags
WuFlags(wu, choice, winds) ==
    CHOOSE r \in { Unset(types, 1) : types \in {RawFlags(wu, choice, winds)} } : TRUE

\* ------------------------------------------------------------------- faan

\* the items of the FLAG_FAAN dict display, in the order written
FaanItems ==
    << <<"CHICKEN_HAND", 0>>,
       <<"COMMON_HAND", 1>>, <<"ALL_IN_TRIPLETS", 3>>,
       <<"ALL_HONOR_TILES", 10>>, <<"ALL_ONE_SUIT", 7>>,
       <<"MIXED_ONE_SUIT", 3>>, <<"GREAT_DRAGONS", 8>>,
       <<"SMALL_DRAGONS", 5>>, <<"GREAT_WINDS", 13>>,
       <<"SMALL_WINDS", 10>>, <<"THIRTEEN_ORPHANS", 13>>,
       <<"ALL_KONGS", 13>>, <<"SELF_TRIPLETS", 8>>,
       <<"ORPHANS", 10>>, <<"NINE_GATES", 10>>,
       <<"RED_DRAGON", 1>>, <<"GREAT_WINDS", 1>>,
       <<"WHITE_DRAGON", 1>>, <<"SEAT_WIND", 1>>,
       <<"PREVAILING_WIND", 1>>, <<"MIXED_ORPHANS", 1>>,
       <<"SELF_DRAW", 1>>, <<"ALL_FROM_WALL", 1>>,
       <<"ROBBING_KONG", 1>>, <<"LAST_CATCH", 1>>,
       <<"BY_KONG", 1>>, <<"DOUBLE_KONG", 8>>,
       <<"HEAVENLY", 13>>, <<"EARTHLY", 13>>,
       <<"TWELVE_PIECE", 0>>, <<"GAVE_DRAGON", 0>>, <<"GAVE_KONG", 0>>,
       <<"NO_BONUSES", 1>>, <<"ALIGNED_FLOWERS", 1>>,
       <<"ALIGNED_SEASONS", 1>>, <<"TABLE_OF_FLOWERS", 2>>,
       <<"TABLE_OF_SEASONS", 2>>, <<"HAND_OF_BONUSES", 8>> >>

\* FLAG_FAAN: a key written twice keeps the value written last
FLAG_FAAN ==
    [f \in {FaanItems[i][1] : i \in 1..Len(FaanItems)} |->
        LET last == CHOOSE i \in 1..Len(FaanItems) :
                       /\ FaanItems[i][1] = f
                       /\ \A j \in (i + 1)..Len(FaanItems) : FaanItems[j][1] # f
        IN  FaanItems[last][2]]

\* the outcome of a faan() call: the points returned, or the exception raised
Returned(points) == [raised |-> "", points |-> points]
KeyError == [raised |-> "KeyError", points |-> 0]
\* faan() not called
NoFaan == [raised |-> "none", points |-> 0]

RECURSIVE SumFaan(_, _)
\* the sum of table[f] over the flags f
SumFaan(flags, table) ==
    IF flags = {} THEN 0
    ELSE CHOOSE r \in { table[f] + SumFaan(flags \ {f}, table) :
                          f \in {CHOOSE x \in flags : TRUE} } : TRUE

\* faan(flags): FLAG_FAAN[flag] raises KeyError for a flag that is no key
Faan(flags) ==
    CHOOSE r \in { IF types \subseteq DOMAIN FLAG_FAAN
                   THEN Returned(SumFaan(types, FLAG_FAAN))
                   ELSE KeyError : types \in {flags} } : TRUE

\* ------------------------------------------------------- HandEnding.points

\* STOCK_TABLES['random_app']: faan -> base points
RandomApp ==
    <<1, 1, 1, 2, 3, 4, 6, 8, 11, 13>>

\* the default of min_faan
DefaultMinFaan == 3

\* points() has not been called
NoScore ==
    [raised |-> "none", points |-> <<>>, none |-> TRUE, flags |-> {}, min_faan |-> 0,
     bonus |-> 0]

\* points() raised `exc`
PointsRaised(exc, min_faan, bonus) ==
    [raised |-> exc, points |-> <<>>, none |-> TRUE, flags |-> {}, min_faan |-> min_faan,
     bonus |-> bonus]

\* points() returned (points, flags); `none` tells that flags is None
PointsReturned(points, none, flags, min_faan, bonus) ==
    [raised |-> "", points |-> points, none |-> none, flags |-> flags,
     min_faan |-> min_faan, bonus |-> bonus]

\* Player.bonus_faan(): the faan of the winner's bonus tiles
BonusFaans == {0, 1}

\* HandEnding.faan()[0] of a won hand whose hand.wind is w
HandFaan(res, w, bonus) ==
    CHOOSE r \in { IF f.raised # "" THEN f ELSE Returned(f.points + bonus) :
                     f \in {Faan(WuFlags(res.wu, res.choice, <<res.winner, w>>))} } : TRUE

SetMax(S) == CHOOSE x \in S : \A y \in S : y <= x

\* the plain self-draw: every other seat pays the base
EveryonePays(winner, base) ==
    [i \in 1..4 |-> IF i = winner + 1 THEN base * 3 ELSE 0 - base]

\* points[winner.seat] += base * n; points[giver] -= base * n
OnePays(winner, giver, amount) ==
    [i \in 1..4 |-> (IF i = winner + 1 THEN amount ELSE 0)
                      - (IF i = giver + 1 THEN amount ELSE 0)]

\* the branch of the special penalties: the giver pays for everyone
Penalty(winner, giver, base) ==
    OnePays(winner, giver, base * 3)

\* HandEnding.points(min_faan, table) of a won hand whose hand.wind is w
Points(res, w, min_faan, table, bonus) ==
    CHOOSE r \in {
        IF f.raised # "" THEN PointsRaised(f.raised, min_faan, bonus)
        ELSE IF f.points < min_faan
        THEN PointsReturned(<<0, 0, 0, 0>>, TRUE, {}, min_faan, bonus)
        ELSE LET limit == SetMax(DOMAIN table)
                 key == IF f.points < limit THEN f.points ELSE limit
             IN  IF key \notin DOMAIN table
                 THEN PointsRaised("KeyError", min_faan, bonus)
                 ELSE LET base == table[key]
                          giver == res.wu.discarder
                          special ==
                              \/ "TWELVE_PIECE" \in flags /\ "SELF_DRAW" \in flags
                              \/ "GAVE_KONG" \in flags /\ "SELF_DRAW" \in flags
                              \/ "GAVE_DRAGON" \in flags
                      IN  IF special /\ giver # NoSeat
                          THEN PointsReturned(Penalty(res.winner, giver, base),
                                              FALSE, flags, min_faan, bonus)
                          ELSE IF giver # NoSeat
                          THEN PointsReturned(OnePays(res.winner, giver, base * 2),
                                              FALSE, flags, min_faan, bonus)
                          ELSE IF "SELF_DRAW" \in flags
                          THEN PointsReturned(EveryonePays(res.winner, base),
                                              FALSE, flags, min_faan, bonus)
                          ELSE PointsRaised("ValueError", min_faan, bonus)
        : f \in {HandFaan(res, w, bonus)},
          flags \in {WuFlags(res.wu, res.choice, NoWinds)} } : TRUE


\* ---------------------------------------------- Wu engine as a function

\* Bounds of the inputs handed to Wu() on its own
MaxNum == 4
MaxExtra == 1

VARIABLES
    \* Wu() and Wu.flags called on their own
    wpc,          \* "input", "built" (Wu() returned or raised), "flagged"
    wtiles,       \* the tiles argument of Wu()
    wfixed,       \* the melds argument of Wu()
    wobj,         \* the Wu built, NoMeld if Wu() raised ValueError
    wchoice,      \* the decomposition handed to Wu.flags
    wwinds,       \* the winds argument of Wu.flags
    wflags,       \* what Wu.flags returned
    wfaan,        \* what faan(flags) returned, KeyError if it raised
    \* a Hand being played
    hands,        \* Player.hand of each seat
    shown,        \* Player.shown of each seat
    wall,         \* Hand.wall; tiles are drawn from its end
    discarded,    \* Hand.discarded
    discarders,   \* Hand.discarders, as seats
    wind,         \* Hand.wind
    turncount,    \* Hand.turncount
    ending,       \* the TurnEnding the last Turn.execute returned
    twelve_piece, \* Hand._12_piece: seat -> seat, NoSeat where no entry
    gave_dragon,  \* Hand._gave_dragon
    gave_kong,    \* Hand._gave_kong
    pc,           \* where the generator stands ("yield": suspended on `question`)
    question,     \* the UserIO yielded and not yet answered
    frame,        \* the locals of the running Turn.execute and its sub-generators
    result,       \* the HandEnding Hand.execute returned
    score,        \* what HandEnding.points gave for `result`
    match         \* the locals of Game.execute and Round.execute

wvars == <<wpc, wtiles, wfixed, wobj, wchoice, wwinds, wflags, wfaan>>
gvars == <<hands, shown, wall, discarded, discarders, wind, turncount, ending,
           twelve_piece, gave_dragon, gave_kong, pc, question, frame, result>>
vars == <<wvars, gvars, score, match>>

\* no Hand is being played
\* no Game is being played
NoMatch == [pc |-> "idle"]

NoHand ==
    /\ hands = <<>> /\ shown = <<>> /\ wall = <<>>
    /\ discarded = <<>> /\ discarders = <<>>
    /\ wind = 0 /\ turncount = 0 /\ ending = <<>>
    /\ twelve_piece = <<>> /\ gave_dragon = <<>> /\ gave_kong = <<>>
    /\ pc = "idle" /\ question = <<>> /\ frame = <<>> /\ result = <<>>

\* tile kinds the enumerated hands are drawn from
Universe == {Tile(TONG, n) : n \in 0..(MaxNum - 1)} \cup {Tile(LONG, 0)}

RECURSIVE Expand(_, _)
\* the sorted tile list with c[t] copies of each tile t of kinds
Expand(c, kinds) ==
    IF kinds = {} THEN <<>>
    ELSE LET t == CHOOSE x \in kinds : \A y \in kinds : x <= y
         IN  [i \in 1..c[t] |-> t] \o Expand(c, kinds \ {t})

Count(ts, t) == Cardinality({i \in 1..Len(ts) : ts[i] = t})

\* exposed melds tried
FixedChoices ==
    { <<>>,
      <<Pong(<<Tile(LONG, 0), Tile(LONG, 0), Tile(LONG, 0)>>)>>,
      <<Kong(<<Tile(TONG, 0), Tile(TONG, 0), Tile(TONG, 0), Tile(TONG, 0)>>)>>,
      <<Chow(<<Tile(TONG, 0), Tile(TONG, 1), Tile(TONG, 2)>>),
        Pong(<<Tile(TONG, 1), Tile(TONG, 1), Tile(TONG, 1)>>)>> }

\* 1112345678999 of one suit plus one more tile of it
NineGatesHands ==
    { SortTiles(<<10, 10, 10, 11, 12, 13, 14, 15, 16, 17, 18, 18, 18>> \o <<Tile(TONG, n)>>)
        : n \in 0..8 }

\* the thirteen reference tiles plus 1..MaxExtra+1 further tiles
OrphanExtras == {Tile(WAN, 0), Tile(WAN, 1), Tile(LONG, 2)}
OrphanHands ==
    LET base == <<0, 8, 10, 18, 20, 28, 30, 31, 32, 33, 40, 41, 42>>
    IN  { SortTiles(base \o x) :
            x \in UNION { [1..n -> OrphanExtras] : n \in 1..(MaxExtra + 1) } }

\* hands melding the green dragon, and the four winds
HonorHands ==
    { SortTiles(<<10, 11, 12, 11, 12, 13, 10, 10, 40, 40, 40, 41, 41, 41>>),
      SortTiles(<<30, 30, 30, 31, 31, 31, 32, 32, 32, 33, 33, 33, 10, 10>>) }

\* situational flags handed to Wu()
BaseChoices == { {}, {"SELF_DRAW"}, {"NINE_GATES"} }

InitWu ==
    /\ wpc = "input"
    /\ wobj = NoMeld
    /\ wchoice = <<>>
    /\ wwinds = NoWinds
    /\ wflags = {}
    /\ wfaan = NoFaan
    /\ NoHand
    /\ score = NoScore
    /\ match = NoMatch
    /\ \/ /\ wfixed \in FixedChoices
          /\ \E c \in [Universe -> 0..4], extra \in 0..MaxExtra :
                /\ wtiles = Expand(c, Universe)
                /\ Len(wtiles) = 14 - 3 * Len(wfixed) + extra
                /\ \A t \in Universe : c[t] + Count(FlattenTiles(wfixed), t) <= 4
       \/ /\ wfixed = <<>>
          /\ wtiles \in NineGatesHands \cup OrphanHands \cup HonorHands

\* Wu(tiles, melds, arrived, discarder, flags)
WuNew ==
    /\ wpc = "input"
    /\ \E melds \in {CheckWu(wtiles, wfixed)} :
          \E arrived \in {NoTile, wtiles[1], wtiles[Len(wtiles)]}, flags \in BaseChoices :
             wobj' = WuObject(wtiles, wfixed, arrived, NoSeat, flags, melds)
    /\ wpc' = "built"
    /\ UNCHANGED <<wtiles, wfixed, wchoice, wwinds, wflags, wfaan, gvars, score, match>>

\* wu.flags(choice, winds) for one of the decompositions of wu.melds
WuFlagsCall ==
    /\ wpc = "built"
    /\ wobj # NoMeld
    /\ \E choice \in wobj.melds, winds \in {NoWinds, <<0, 1>>} :
          /\ wchoice' = choice
          /\ wwinds' = winds
          /\ wflags' = WuFlags(wobj, choice, winds)
    /\ wpc' = "flagged"
    /\ UNCHANGED <<wtiles, wfixed, wobj, wfaan, gvars, score, match>>

\* faan(types), as Wu.faan calls it on the flags of the choice
FaanCall ==
    /\ wpc = "flagged"
    /\ wfaan' = Faan(wflags)
    /\ wpc' = "scored"
    /\ UNCHANGED <<wtiles, wfixed, wobj, wchoice, wwinds, wflags, gvars, score, match>>

NextWu == WuNew \/ WuFlagsCall \/ FaanCall

SpecWu == InitWu /\ [][NextWu]_vars

\* ------------------------------------------------------------------ a Hand

Seats == 0..3

\* pop() taking the first entry of the list instead of the last
FrontPopsFirst(s) == Tail(s)

\* drop the last element (list.pop() without its value)
Front(s) ==
    SubSeq(s, 1, Len(s) - 1)

Reverse(s) == [i \in 1..Len(s) |-> s[Len(s) + 1 - i]]

\* TurnEnding(winner, discard, seat, wu, jumped_with, offered, prev_seat)
TurnEnding(winner, discard, seat, wu, jumped_with, offered, prev_seat) ==
    [winner |-> winner, discard |-> discard, seat |-> seat, wu |-> wu,
     jumped_with |-> jumped_with, offered |-> offered, prev_seat |-> prev_seat]

\* UserIO(question, gen, melds, player, arrived, last_meld)
UserIO(q, melds, player, arrived, last_meld) ==
    [question |-> q, melds |-> melds, player |-> player, arrived |-> arrived,
     last_meld |-> last_meld]

\* no question is pending
NoQuestion == [question |-> "None"]

\* HandEnding(result, hand, winner, wu, choice)
HandEnding(res, winner, wu, choice) ==
    [result |-> res, winner |-> winner, wu |-> wu, choice |-> choice]

\* Hand.execute has not returned
NoResult == [result |-> "None"]

\* an absent decomposition (choice = None)
NoChoice == <<>>

\* a dict keyed by player without entries
NoEntries == [s \in Seats |-> NoSeat]

\* the locals of Turn.execute, check_kong_robbers and check_others_melds
\* when Turn.execute is entered
NoFrame ==
    [player |-> NoSeat,      \* player
     meld |-> NoMeld,        \* meld
     arrived |-> NoTile,     \* arrived
     tries |-> 0,            \* tries
     drawn |-> NoTile,       \* drawn
     wu |-> NoMeld,          \* wu (the Wu of the pending SELF_DRAW_Q / ROB_KONG_Q)
     kong |-> NoMeld,        \* kong (the Kong handed to check_kong_robbers)
     rob_next |-> 0,         \* check_kong_robbers: the next player of its loop
     rob_from |-> "",        \* which call of check_kong_robbers runs
     site |-> "",            \* which generator asked MELD_FROM_DISCARD_Q
     overall |-> [s \in Seats |-> <<>>],   \* check_others_melds: overall
     pairs |-> <<>>,         \* check_others_melds: pairs
     askidx |-> 0,           \* check_others_melds: position in pairs
     discard |-> NoTile,     \* check_others_melds: discard
     answer |-> NoMeld]      \* the last answer to MELD_FROM_DISCARD_Q

RECURSIVE SortedMelds(_)
\* a set of melds as the list sorted by Meld.__lt__
SortedMelds(S) ==
    IF S = {} THEN <<>>
    ELSE CHOOSE r \in { <<m>> \o SortedMelds(S \ {m}) :
                          m \in {CHOOSE x \in S : \A y \in S \ {x} : MeldLt(x, y)} } : TRUE

\* some dragon among the exposed melds
AllDragonsAny(shownp) ==
    \E n \in 0..2 : \E i \in 1..Len(shownp) :
        SuitOf(shownp[i].tiles[1]) = LONG /\ NumberOf(shownp[i].tiles[1]) = n

\* Turn.all_dragons
AllDragons(shownp) ==
    \A n \in 0..2 : \E i \in 1..Len(shownp) :
        SuitOf(shownp[i].tiles[1]) = LONG /\ NumberOf(shownp[i].tiles[1]) = n

\* Player.show_meld(discard, meld), the hand afterwards: the tiles of the
\* meld other than the claimed discard leave the hand
HandAfterShow(hand, discard, meld) ==
    RemoveAll(hand, RemoveFirst(meld.tiles, discard))

\* the index pairs / triples / quadruples of itertools.combinations
Combos2(n) == UNION { { <<a, b>> : b \in (a + 1)..n } : a \in 1..n }
Combos3(n) == UNION { { <<p[1], p[2], c>> : c \in (p[2] + 1)..n } : p \in Combos2(n) }
Combos4(n) == UNION { { <<p[1], p[2], p[3], d>> : d \in (p[3] + 1)..n } : p \in Combos3(n) }

\* Turn.melds_from_discard: the list `melds`
MeldsFromDiscard(hand, shownp, discard, prev_seat) ==
    LET n == Len(hand)
        trips == { GetTriplet(<<hand[p[1]], hand[p[2]], discard>>) : p \in Combos2(n) }
                    \ {NoMeld}
        kongs == { Kong(<<hand[p[1]], hand[p[2]], hand[p[3]], discard>>) :
                     p \in {q \in Combos3(n) : \A i \in 1..3 : hand[q[i]] = discard} }
        wu == Wu(hand \o <<discard>>, shownp, discard, prev_seat, {})
    IN  CHOOSE r \in { SortedMelds(S) : S \in {trips \cup kongs \cup ({wu} \ {NoMeld})} } : TRUE

\* overall[player] with the Wu of a discard naming nobody as its discarder
OthersMeldsNoDiscarder(hand, shownp, discard, isNext, victim) ==
    LET n == Len(hand)
        pongs == { Pong(<<hand[p[1]], hand[p[2]], discard>>) :
                     p \in {q \in Combos2(n) : PongOk(<<hand[q[1]], hand[q[2]], discard>>)} }
        chows == IF isNext
                 THEN { Chow(<<hand[p[1]], hand[p[2]], discard>>) :
                          p \in {q \in Combos2(n) : ChowOk(<<hand[q[1]], hand[q[2]], discard>>)} }
                 ELSE {}
        kongs == { Kong(<<hand[p[1]], hand[p[2]], hand[p[3]], discard>>) :
                     p \in {q \in Combos3(n) :
                              KongOk(<<hand[q[1]], hand[q[2]], hand[q[3]], discard>>)} }
        wu == Wu(hand \o <<discard>>, shownp, discard, NoSeat, {})
    IN  CHOOSE r \in { SortedMelds(S) :
                          S \in {pongs \cup chows \cup kongs \cup ({wu} \ {NoMeld})} } : TRUE

\* Turn.check_others_melds: overall[player] after melds.sort()
OthersMelds(hand, shownp, discard, isNext, victim) ==
    LET n == Len(hand)
        pongs == { Pong(<<hand[p[1]], hand[p[2]], discard>>) :
                     p \in {q \in Combos2(n) : PongOk(<<hand[q[1]], hand[q[2]], discard>>)} }
        chows == IF isNext
                 THEN { Chow(<<hand[p[1]], hand[p[2]], discard>>) :
                          p \in {q \in Combos2(n) : ChowOk(<<hand[q[1]], hand[q[2]], discard>>)} }
                 ELSE {}
        kongs == { Kong(<<hand[p[1]], hand[p[2]], hand[p[3]], discard>>) :
                     p \in {q \in Combos3(n) :
                              KongOk(<<hand[q[1]], hand[q[2]], hand[q[3]], discard>>)} }
        wu == Wu(hand \o <<discard>>, shownp, discard, victim, {})
    IN  CHOOSE r \in { SortedMelds(S) :
                          S \in {pongs \cup chows \cup kongs \cup ({wu} \ {NoMeld})} } : TRUE

\* overall with the Chow test made for every seat
OverallChowForAll(hs, discard, victim) ==
    [s \in Seats |->
        IF s = victim THEN <<>>
        ELSE OthersMelds(hs[s], shown[s], discard, TRUE, victim)]

\* Turn.check_others_melds: overall
Overall(hs, discard, victim) ==
    [s \in Seats |->
        IF s = victim THEN <<>>
        ELSE OthersMelds(hs[s], shown[s], discard, s = (victim + 1) % 4, victim)]

RECURSIVE SortPairs(_)
\* pairs.sort(key=lambda i: i[1]): stable, by Meld.__lt__
SortPairs(ps) ==
    IF ps = <<>> THEN <<>>
    ELSE LET rest == SortPairs(Front(ps))
             x == ps[Len(ps)]
             k == Cardinality({i \in 1..Len(rest) : ~MeldLt(x.meld, rest[i].meld)})
         IN  SubSeq(rest, 1, k) \o <<x>> \o SubSeq(rest, k + 1, Len(rest))

\* pairs with every seat listed twice
PairsOfTwice(overall, victim) ==
    LET seats == SelectSeq(<<0, 1, 2, 3>>, LAMBDA s : s # victim /\ overall[s] # <<>>)
        pairs == SortPairs([i \in 1..Len(seats) |-> [player |-> seats[i], meld |-> overall[seats[i]][1]]])
    IN  pairs \o pairs

\* Turn.check_others_melds: pairs, sorted
PairsOf(overall, victim) ==
    LET seats == SelectSeq(<<0, 1, 2, 3>>, LAMBDA s : s # victim /\ overall[s] # <<>>)
    IN  SortPairs([i \in 1..Len(seats) |-> [player |-> seats[i], meld |-> overall[seats[i]][1]]])

\* Turn.check_ekfp: the concealed Kongs of the hand
ConcealedKongs(hand) ==
    { Kong(<<hand[p[1]], hand[p[2]], hand[p[3]], hand[p[4]]>>) :
        p \in {q \in Combos4(Len(hand)) : \A i \in 2..4 : hand[q[i]] = hand[q[1]]} }

\* Turn.check_ekfp: the Kongs that promote an exposed Pong
PromotedKongs(hand, shownp) ==
    { Kong(shownp[i].tiles \o <<shownp[i].tiles[1]>>) :
        i \in {j \in 1..Len(shownp) :
                 shownp[j].type = "Pong" /\ shownp[j].tiles[1] \in Range(hand)} }

\* ---------------------------------------------------- positions played from

\* The hand is played from a position late in it: thirteen concealed tiles
\* per seat, nothing exposed, WallLen tiles left in the wall, every other
\* tile of the set discarded with no claim made, and the seat before
\* `actor` having just discarded.
WallLen == 3

\* the 136 tiles that are not bonus tiles, four of each kind
TileKinds ==
    {Tile(s, n) : s \in Simples, n \in 0..8}
      \cup {Tile(FENG, n) : n \in 0..3} \cup {Tile(LONG, n) : n \in 0..2}

\* hands by seat, the order in which the wall's last tiles will be drawn,
\* and the seat to act:
\*  - seat 0 holds a wan/1 that completes a Chow for seat 1, a Pong for
\*    seat 2 and the winning hand of seat 3 (which has two decompositions)
PriorityDeal ==
    [hands |-> << <<0, 4, 8, 14, 18, 20, 24, 28, 30, 31, 32, 33, 42>>,
                  <<1, 2, 6, 15, 21, 25, 27, 30, 31, 32, 33, 41, 42>>,
                  <<0, 0, 5, 7, 16, 22, 26, 30, 31, 32, 33, 41, 42>>,
                  <<1, 2, 10, 10, 10, 11, 11, 11, 12, 12, 12, 40, 40>> >>,
     shown |-> << <<>>, <<>>, <<>>, <<>> >>,
     claims |-> 0,
     stock |-> <<23, 17, 3, 13, 7>>,
     actor |-> 0]

\*  - seat 1 holds a wan/1 of which seat 2 holds three; seat 2 is one tile
\*    from winning and the wall gives it tong/1, then tong/4; seat 3 wins
\*    on tong/1 or tong/4
KongDeal ==
    [hands |-> << <<2, 5, 8, 15, 18, 21, 23, 27, 28, 31, 32, 41, 42>>,
                  <<0, 4, 8, 14, 18, 20, 24, 28, 30, 31, 32, 33, 42>>,
                  <<0, 0, 0, 10, 10, 10, 11, 12, 40, 40, 40, 41, 41>>,
                  <<11, 12, 20, 21, 22, 24, 25, 26, 30, 30, 30, 33, 33>> >>,
     shown |-> << <<>>, <<>>, <<>>, <<>> >>,
     claims |-> 0,
     stock |-> <<16, 10, 13, 7, 3>>,
     actor |-> 1]

\*  - seat 3 has taken seat 2's first two discards, long/1 and long/2, for
\*    Pongs; it holds two long/3, three tong/1 and waits on zhu/1; seat 2
\*    holds a long/3, seat 0 a zhu/1, and the wall gives seat 0 the fourth
\*    tong/1 and then gives zhu/1
DragonDeal ==
    [hands |-> << <<1, 2, 4, 5, 7, 8, 12, 14, 15, 17, 18, 18, 20>>,
                  <<0, 3, 6, 11, 13, 16, 21, 24, 27, 30, 30, 31, 32>>,
                  <<0, 3, 6, 11, 14, 17, 22, 25, 28, 31, 32, 33, 42>>,
                  <<10, 10, 10, 20, 33, 42, 42>> >>,
     shown |-> << <<>>, <<>>, <<>>,
                  <<Pong(<<40, 40, 40>>), Pong(<<41, 41, 41>>)>> >>,
     claims |-> 2,
     stock |-> <<23, 10, 20, 26, 5>>,
     actor |-> 2]

\*  - seat 0 holds three wan/1 and three wan/2 and waits on zhu/1; the wall
\*    gives it the fourth wan/1, the fourth wan/2 and then zhu/1
DoubleKongDeal ==
    [hands |-> << <<0, 0, 0, 1, 1, 1, 2, 3, 4, 15, 16, 17, 20>>,
                  <<5, 8, 14, 18, 21, 24, 27, 28, 30, 31, 32, 33, 42>>,
                  <<6, 8, 13, 18, 22, 25, 28, 30, 31, 32, 33, 41, 42>>,
                  <<7, 10, 12, 14, 23, 26, 30, 31, 32, 33, 40, 41, 42>> >>,
     shown |-> << <<>>, <<>>, <<>>, <<>> >>,
     claims |-> 0,
     stock |-> <<0, 1, 20, 11, 5>>,
     actor |-> 0]

Deals == {PriorityDeal, KongDeal, DragonDeal, DoubleKongDeal}

\* turns played from a fresh deal before the exploration of that hand stops
EarlyTurns == 2

\* a fresh deal (the eight bonus tiles were drawn and replaced while dealing):
\*  - seat 0 deals, waits on feng/1 and draws it first; seat 2 waits on
\*    feng/1 too; seats 1 and 3 hold no pair
OpeningDeal ==
    [hands |-> << <<0, 1, 2, 3, 4, 5, 10, 11, 12, 20, 20, 20, 30>>,
                  <<8, 16, 18, 24, 26, 28, 30, 31, 32, 33, 40, 41, 42>>,
                  <<6, 7, 8, 13, 14, 15, 21, 22, 23, 30, 31, 31, 31>>,
                  <<16, 17, 18, 24, 25, 26, 27, 28, 32, 33, 40, 41, 42>> >>,
     stock |-> <<30, 1, 13>>,
     actor |-> 0]

Openings == {OpeningDeal}

RECURSIVE RemoveFirstK(_, _, _)
\* the list without the first k entries equal to x
RemoveFirstK(seq, x, k) ==
    IF k = 0 THEN seq ELSE RemoveFirstK(RemoveFirst(seq, x), x, k - 1)

\* the state of the Hand at the top of the loop of Hand.execute in the
\* position `deal`: every tile not held, exposed or in the wall has been
\* discarded, seat after seat from the dealer on; the first deal.claims
\* discards of seat 2 were taken by seat 3 for the Pongs it shows, so they
\* are in no history and seat 3 discarded without drawing
Position(deal) ==
    LET hs == [s \in Seats |-> deal.hands[s + 1]]
        sh == [s \in Seats |-> deal.shown[s + 1]]
        w == Reverse(SubSeq(deal.stock, 1, WallLen))
        held == hs[0] \o hs[1] \o hs[2] \o hs[3] \o w
                  \o FlattenTiles(sh[0] \o sh[1] \o sh[2] \o sh[3])
        gone == Expand([t \in TileKinds |-> 4 - Count(held, t)], TileKinds)
        n == Len(gone)
        turns == n + deal.claims
        dealer == (deal.actor + 3 * turns) % 4
        prev == (deal.actor + 3) % 4
        last == gone[n]
    IN  /\ hands = hs
        /\ shown = sh
        /\ wall = w
        /\ discarded = gone
        /\ discarders = RemoveFirstK([i \in 1..turns |-> (dealer + i - 1) % 4],
                                     2, deal.claims)
        /\ wind = dealer
        /\ turncount = turns
        /\ ending = TurnEnding(NoSeat, last, deal.actor, NoMeld, NoMeld,
                               OthersMelds(hs[deal.actor], sh[deal.actor], last, TRUE, prev)
                                 # <<>>,
                               prev)

\* the state of the Hand when Hand.execute enters its loop after shuffle()
\* and deal(): nothing discarded, the wall holds every tile not dealt, the
\* tiles of deal.stock on top, and the dealer is to act
Opening(deal) ==
    LET hs == [s \in Seats |-> deal.hands[s + 1]]
        held == hs[0] \o hs[1] \o hs[2] \o hs[3] \o deal.stock
        rest == Expand([t \in TileKinds |-> 4 - Count(held, t)], TileKinds)
    IN  /\ hands = hs
        /\ shown = [s \in Seats |-> <<>>]
        /\ wall = rest \o Reverse(deal.stock)
        /\ discarded = <<>>
        /\ discarders = <<>>
        /\ wind = deal.actor
        /\ turncount = 0
        /\ ending = TurnEnding(NoSeat, NoTile, deal.actor, NoMeld, NoMeld, FALSE, NoSeat)

\* no Wu() call of its own is under way
NoWuCall ==
    /\ wpc = "idle" /\ wtiles = <<>> /\ wfixed = <<>> /\ wobj = NoMeld
    /\ wchoice = <<>> /\ wwinds = NoWinds /\ wflags = {} /\ wfaan = NoFaan

\* Hand.__init__ and the part of Hand.execute before its loop
Init ==
    /\ NoWuCall
    /\ \/ \E deal \in Deals : Position(deal)
       \/ \E deal \in Openings : Opening(deal)
    /\ twelve_piece = NoEntries
    /\ gave_dragon = NoEntries
    /\ gave_kong = NoEntries
    /\ pc = "loop"
    /\ question = NoQuestion
    /\ frame = NoFrame
    /\ result = NoResult
    /\ score = NoScore
    /\ match = NoMatch

\* ------------------------------------------------- Hand.execute / Turn.execute

table == <<hands, shown, wall, discarded, discarders>>
books == <<twelve_piece, gave_dragon, gave_kong>>

\* Turn.execute returns `e` to the loop of Hand.execute, which counts the turn
ReturnTurn(e) ==
    /\ ending' = e
    /\ turncount' = turncount + 1
    /\ pc' = "loop"
    /\ question' = NoQuestion

\* the generator yields the question q
Yield(q) ==
    /\ pc' = "yield"
    /\ question' = q

\* a loop test that does not look at the wall
LoopTestNoWall ==
    ending.winner = NoSeat

\* Hand.execute: the test of its loop
LoopTest ==
    ending.winner = NoSeat /\ wall # <<>>

\* Step 26-27 of Turn.execute: sort the hand and ask DISCARD_WHAT
AskDiscard(hand, arrived) ==
    /\ hands' = [hands EXCEPT ![frame.player] = SortTiles(hand)]
    /\ frame' = [frame EXCEPT !.arrived = arrived]
    /\ Yield(UserIO("DISCARD_WHAT", <<>>, frame.player, arrived, frame.meld))

\* Hand.execute: the loop test holds; Turn.execute up to its first question
\* or to the test of `meld`
TurnStart ==
    /\ pc = "loop"
    /\ LoopTest
    /\ (turncount < EarlyTurns \/ Len(wall) <= WallLen)
    /\ IF ending.seat = NoSeat
       THEN /\ pc' = "ValueError"
            /\ UNCHANGED <<table, books, question, frame>>
       ELSE LET player == ending.seat
                jumped == /\ ending.jumped_with # NoMeld
                          /\ ending.discard # NoTile
                          /\ ending.prev_seat # NoSeat
                old_count == Len(shown[player])
                old_drag == AllDragons(shown[player])
                new_shown == Append(shown[player], ending.jumped_with)
            IN  \E melds \in { IF ~jumped /\ ending.discard # NoTile /\ ~ending.offered
                                THEN MeldsFromDiscard(hands[player], shown[player],
                                                      ending.discard, ending.prev_seat)
                                ELSE <<>> } :
                /\ discarded' = IF jumped THEN Front(discarded) ELSE discarded
                /\ discarders' = IF jumped THEN Front(discarders) ELSE discarders
                /\ shown' = IF jumped THEN [shown EXCEPT ![player] = new_shown] ELSE shown
                /\ hands' = IF jumped
                            THEN [hands EXCEPT ![player] =
                                    HandAfterShow(@, ending.discard, ending.jumped_with)]
                            ELSE hands
                /\ twelve_piece' =
                      IF jumped /\ old_count = 3 /\ Len(new_shown) = 4
                      THEN [twelve_piece EXCEPT ![player] = ending.prev_seat]
                      ELSE twelve_piece
                /\ gave_dragon' =
                      IF jumped /\ ~old_drag /\ AllDragons(new_shown)
                      THEN [gave_dragon EXCEPT ![player] = ending.prev_seat]
                      ELSE gave_dragon
                /\ frame' = [NoFrame EXCEPT
                               !.player = player,
                               !.meld = IF jumped THEN ending.jumped_with ELSE NoMeld,
                               !.site = IF melds # <<>> THEN "turn" ELSE ""]
                /\ IF melds # <<>>
                   THEN Yield(UserIO("MELD_FROM_DISCARD_Q", melds, player,
                                     ending.discard, NoMeld))
                   ELSE pc' = "melded" /\ UNCHANGED question
                /\ UNCHANGED <<wall, gave_kong>>
    /\ UNCHANGED <<wind, turncount, ending, result, wvars, score, match>>

\* Turn.execute from the test of `meld` to the next question, or to the
\* entry of check_kong_robbers or of the draw loop
AfterMeld ==
    /\ pc = "melded"
    /\ IF frame.meld.type = "Wu"
       THEN /\ ReturnTurn(TurnEnding(frame.player, NoTile, NoSeat,
                            IF turncount = 1
                            THEN [frame.meld EXCEPT !.base_flags = @ \cup {"EARTHLY"}]
                            ELSE frame.meld,
                            NoMeld, FALSE, NoSeat))
            /\ UNCHANGED <<hands, frame>>
       ELSE IF frame.meld.type = "Kong"
       THEN /\ frame' = [frame EXCEPT !.kong = frame.meld, !.rob_next = 0,
                                      !.rob_from = "claim"]
            /\ pc' = "rob"
            /\ UNCHANGED <<hands, ending, turncount, question>>
       ELSE IF frame.meld = NoMeld
       THEN /\ frame' = [frame EXCEPT !.arrived = NoTile, !.tries = 0]
            /\ pc' = "draw"
            /\ UNCHANGED <<hands, ending, turncount, question>>
       ELSE /\ AskDiscard(hands[frame.player], ending.discard)
            /\ UNCHANGED <<ending, turncount>>
    /\ UNCHANGED <<shown, wall, discarded, discarders, books, wind, result, wvars, score, match>>

\* the Wu of a robber with nobody named as its discarder
RobWuNoDiscarder(p, tile, victim) ==
    Wu(hands[p] \o <<tile>>, shown[p], tile, NoSeat, {"ROBBING_KONG"})

\* the Wu check_kong_robbers tries for player p on the tile of victim's Kong
RobWu(p, tile, victim) ==
    Wu(hands[p] \o <<tile>>, shown[p], tile, victim, {"ROBBING_KONG"})

\* Turn.check_kong_robbers: its loop up to the next ROB_KONG_Q or to its
\* return of (None, None), after which Turn.execute enters the draw loop
\* (tries = 0) or goes round it (tries += 1)
RobCheck ==
    /\ pc = "rob"
    /\ LET tile == frame.kong.tiles[1]
           victim == frame.player
           robbers == {p \in Seats : /\ p >= frame.rob_next /\ p # victim
                                     /\ RobWu(p, tile, victim) # NoMeld}
       IN  IF robbers # {}
           THEN LET p == CHOOSE x \in robbers : \A y \in robbers : x <= y
                IN  /\ frame' = [frame EXCEPT !.wu = RobWu(p, tile, victim),
                                              !.rob_next = p + 1]
                    /\ Yield(UserIO("ROB_KONG_Q", <<RobWu(p, tile, victim)>>, p,
                                    NoTile, NoMeld))
           ELSE /\ frame' = IF frame.rob_from = "claim"
                            THEN [frame EXCEPT !.arrived = NoTile, !.tries = 0, !.wu = NoMeld]
                            ELSE [frame EXCEPT !.tries = @ + 1, !.wu = NoMeld]
                /\ pc' = "draw"
                /\ UNCHANGED question
    /\ UNCHANGED <<table, books, wind, turncount, ending, result, wvars, score, match>>

\* the answer to ROB_KONG_Q
AnswerRobKong ==
    /\ pc = "yield" /\ question.question = "ROB_KONG_Q"
    /\ \E answer \in BOOLEAN :
          IF answer
          THEN /\ ReturnTurn(TurnEnding(question.player, NoTile, NoSeat, frame.wu,
                                        NoMeld, FALSE, NoSeat))
               /\ UNCHANGED frame
          ELSE /\ pc' = "rob"
               /\ question' = NoQuestion
               /\ UNCHANGED <<frame, ending, turncount>>
    /\ UNCHANGED <<table, books, wind, result, wvars, score, match>>

\* the flags with every draw after a Kong counted as the first one
DrawFlagsByKongOnly(tries) ==
    {"SELF_DRAW"}
      \cup (IF tries = 0 /\ turncount = 0 THEN {"HEAVENLY"}
            ELSE IF tries >= 1 THEN {"BY_KONG"}
            ELSE {})

\* the flags of the Wu tried after a draw
DrawFlags(tries) ==
    {"SELF_DRAW"}
      \cup (IF tries = 0 /\ turncount = 0 THEN {"HEAVENLY"}
            ELSE IF tries = 1 THEN {"BY_KONG"}
            ELSE IF tries > 1 THEN {"DOUBLE_KONG"}
            ELSE {})

\* Player.draw: the tile a player takes, the last of the wall
PlayerDraw(w) == w[Len(w)]

\* an ending without winner that still names the seat that could not draw
TurnTiedKeepsSeat(player) ==
    TurnEnding(NoSeat, NoTile, player, NoMeld, NoMeld, FALSE, NoSeat)

\* TurnEnding(): the ending returned when `player` finds no tile to draw
TurnTied(player) ==
    TurnEnding(NoSeat, NoTile, NoSeat, NoMeld, NoMeld, FALSE, NoSeat)

\* the draw loop of Turn.execute: one draw and the Wu tried on it
Draw ==
    /\ pc = "draw"
    /\ IF wall = <<>>
       THEN /\ ReturnTurn(TurnTied(frame.player))
            /\ UNCHANGED <<hands, wall, frame>>
       ELSE LET player == frame.player
                drawn == PlayerDraw(wall)
                hand == Append(hands[player], drawn)
                flags == DrawFlags(frame.tries)
                given == /\ ("BY_KONG" \in flags \/ "DOUBLE_KONG" \in flags)
                         /\ gave_kong[player] # NoSeat
                wu == Wu(hand, shown[player], drawn,
                         IF given THEN gave_kong[player] ELSE NoSeat,
                         IF given THEN flags \cup {"GAVE_KONG"} ELSE flags)
            IN  /\ wall' = Front(wall)
                /\ hands' = [hands EXCEPT ![player] = hand]
                /\ frame' = [frame EXCEPT !.drawn = drawn, !.wu = wu]
                /\ IF wu # NoMeld
                   THEN Yield(UserIO("SELF_DRAW_Q", <<wu>>, player, drawn, NoMeld))
                   ELSE pc' = "ekfcp" /\ UNCHANGED question
                /\ UNCHANGED <<ending, turncount>>
    /\ UNCHANGED <<shown, discarded, discarders, books, wind, result, wvars, score, match>>

\* the answer to SELF_DRAW_Q
AnswerSelfDraw ==
    /\ pc = "yield" /\ question.question = "SELF_DRAW_Q"
    /\ \E answer \in BOOLEAN :
          IF answer
          THEN ReturnTurn(TurnEnding(frame.player, NoTile, NoSeat, frame.wu,
                                     NoMeld, FALSE, NoSeat))
          ELSE /\ pc' = "ekfcp"
               /\ question' = NoQuestion
               /\ UNCHANGED <<ending, turncount>>
    /\ UNCHANGED <<table, books, frame, wind, result, wvars, score, match>>

\* `arrived = drawn`, then Turn.check_ekfp, first half: the concealed Kongs
\* of the hand
CheckEkfcp ==
    /\ pc = "ekfcp"
    /\ frame' = [frame EXCEPT !.arrived = frame.drawn]
    /\ LET kongs == ConcealedKongs(hands[frame.player])
       IN  IF kongs # {}
           THEN Yield(UserIO("SHOW_EKFCP_Q", SortedMelds(kongs), frame.player,
                             frame.drawn, NoMeld))
           ELSE pc' = "ekfep" /\ UNCHANGED question
    /\ UNCHANGED <<table, books, wind, turncount, ending, result, wvars, score, match>>

\* the draw loop left with the kong-giver entry of the player kept
LeaveDrawLoopKeepsRecord ==
    /\ UNCHANGED gave_kong
    /\ AskDiscard(hands[frame.player], frame.arrived)

\* check_ekfp returned None: the kong-giver entry of the player is dropped,
\* the draw loop is left and DISCARD_WHAT is asked
LeaveDrawLoop ==
    /\ gave_kong' = [gave_kong EXCEPT ![frame.player] = NoSeat]
    /\ AskDiscard(hands[frame.player], frame.arrived)

\* check_ekfp returned `kong`: it is exposed and check_kong_robbers entered
ExposeKong(hand, shownp, kong) ==
    /\ hands' = [hands EXCEPT ![frame.player] = hand]
    /\ shown' = [shown EXCEPT ![frame.player] = Append(shownp, kong)]
    /\ frame' = [frame EXCEPT !.kong = kong, !.rob_next = 0, !.rob_from = "loop"]
    /\ pc' = "rob"
    /\ question' = NoQuestion

\* the answer to SHOW_EKFCP_Q
AnswerEkfcp ==
    /\ pc = "yield" /\ question.question = "SHOW_EKFCP_Q"
    /\ \E answer \in Range(question.melds) \cup {NoMeld} :
          IF answer # NoMeld
          THEN ExposeKong(RemoveAll(hands[frame.player], answer.tiles),
                          shown[frame.player], answer)
          ELSE /\ pc' = "ekfep"
               /\ question' = NoQuestion
               /\ UNCHANGED <<hands, shown, frame>>
    /\ UNCHANGED <<wall, discarded, discarders, books, wind, turncount, ending,
                   result, wvars, score, match>>

\* Turn.check_ekfp, second half: the Kongs promoting an exposed Pong
CheckEkfep ==
    /\ pc = "ekfep"
    /\ LET kongs == PromotedKongs(hands[frame.player], shown[frame.player])
       IN  IF kongs # {}
           THEN /\ Yield(UserIO("SHOW_EKFEP_Q", SortedMelds(kongs), frame.player,
                                frame.arrived, NoMeld))
                /\ UNCHANGED <<hands, gave_kong, frame>>
           ELSE LeaveDrawLoop
    /\ UNCHANGED <<shown, wall, discarded, discarders, twelve_piece, gave_dragon,
                   wind, turncount, ending, result, wvars, score, match>>

\* list.remove on a list of melds
RemoveMeld(ms, m) ==
    LET i == CHOOSE k \in 1..Len(ms) : MeldEq(ms[k], m) /\ \A j \in 1..(k - 1) : ~MeldEq(ms[j], m)
    IN  SubSeq(ms, 1, i - 1) \o SubSeq(ms, i + 1, Len(ms))

\* the answer to SHOW_EKFEP_Q
AnswerEkfep ==
    /\ pc = "yield" /\ question.question = "SHOW_EKFEP_Q"
    /\ \E answer \in Range(question.melds) \cup {NoMeld} :
          IF answer # NoMeld
          THEN /\ ExposeKong(RemoveFirst(hands[frame.player], answer.tiles[1]),
                             RemoveMeld(shown[frame.player],
                                        Pong(SubSeq(answer.tiles, 1, 3))),
                             answer)
               /\ UNCHANGED gave_kong
          ELSE /\ LeaveDrawLoop
               /\ UNCHANGED shown
    /\ UNCHANGED <<wall, discarded, discarders, twelve_piece, gave_dragon, wind,
                   turncount, ending, result, wvars, score, match>>

\* the tile joins the history with the seat on its left as its discarder
DiscardTileNextSeat(answer, player) ==
    /\ discarded' = Append(discarded, answer)
    /\ discarders' = Append(discarders, (player + 1) % 4)

\* Step 28: the tile joins Hand.discarded, the player Hand.discarders
DiscardTile(answer, player) ==
    /\ discarded' = Append(discarded, answer)
    /\ discarders' = Append(discarders, player)

\* the tiles the driver may answer DISCARD_WHAT with: the lowest or the
\* highest tile of the hand, or the arrived tile if it is in the hand
DiscardAnswers(hand, arrived) ==
    {hand[1], hand[Len(hand)]} \cup ({arrived} \cap Range(hand))

\* the answer to DISCARD_WHAT: Step 28, then check_others_melds up to its
\* loop over `pairs`
AnswerDiscard ==
    /\ pc = "yield" /\ question.question = "DISCARD_WHAT"
    /\ \E answer \in DiscardAnswers(hands[frame.player], question.arrived) :
          LET player == frame.player
              hs == [hands EXCEPT ![player] = RemoveFirst(@, answer)]
          IN  /\ hands' = hs
              /\ DiscardTile(answer, player)
              /\ \E overall \in {Overall(hs, answer, player)} :
                    frame' = [frame EXCEPT !.overall = overall,
                                           !.pairs = PairsOf(overall, player),
                                           !.askidx = 1,
                                           !.discard = answer,
                                           !.site = "others"]
    /\ pc' = "ask"
    /\ question' = NoQuestion
    /\ UNCHANGED <<shown, wall, books, wind, turncount, ending, result, wvars, score, match>>

\* a NextSeat ending that names no seat
NextSeatEndingNoSeat(discard, victim, offered) ==
    TurnEnding(NoSeat, discard, NoSeat, NoMeld, NoMeld, offered, victim)

\* a NextSeat ending that never says the discard was offered
NextSeatEndingNeverOffered(discard, victim, offered) ==
    TurnEnding(NoSeat, discard, (victim + 1) % 4, NoMeld, NoMeld, FALSE, victim)

\* Turn.execute, Step 14: the ending when check_others_melds returned no
\* thief; `offered` is the bool it returned instead of a meld
NextSeatEnding(discard, victim, offered) ==
    TurnEnding(NoSeat, discard, (victim + 1) % 4, NoMeld, NoMeld, offered, victim)

\* the loop of check_others_melds over `pairs`: the next question, or its
\* return of (None, bool(...)) and the NextSeat ending of Turn.execute
AskNext ==
    /\ pc = "ask"
    /\ IF frame.askidx <= Len(frame.pairs)
       THEN /\ Yield(UserIO("MELD_FROM_DISCARD_Q",
                            frame.overall[frame.pairs[frame.askidx].player],
                            frame.pairs[frame.askidx].player, frame.discard, NoMeld))
            /\ UNCHANGED <<ending, turncount>>
       ELSE ReturnTurn(NextSeatEnding(frame.discard, frame.player,
                                      frame.overall[(frame.player + 1) % 4] # <<>>))
    /\ UNCHANGED <<table, books, frame, wind, result, wvars, score, match>>

\* a claim that leaves the turn with the victim's neighbour unless it wins
ClaimEndingPassesOn(thief, meld, discard, victim) ==
    IF meld.type = "Wu"
    THEN TurnEnding(thief, NoTile, NoSeat, meld, NoMeld, FALSE, NoSeat)
    ELSE TurnEnding(NoSeat, discard, (victim + 1) % 4, NoMeld, NoMeld, TRUE, victim)

\* Turn.execute, Step 31: the ending when check_others_melds returned a
\* thief and the meld the thief answered with
ClaimEnding(thief, meld, discard, victim) ==
    IF meld.type = "Wu"
    THEN TurnEnding(thief, NoTile, NoSeat, meld, NoMeld, FALSE, NoSeat)
    ELSE TurnEnding(NoSeat, discard, thief, NoMeld, meld, FALSE, victim)

\* the answer to MELD_FROM_DISCARD_Q, asked by check_others_melds
\* (site "others") or by melds_from_discard (site "turn")
AnswerMeldFromDiscard ==
    /\ pc = "yield" /\ question.question = "MELD_FROM_DISCARD_Q"
    /\ \E answer \in Range(question.melds) \cup {NoMeld} :
          IF frame.site = "others"
          THEN /\ IF answer = NoMeld
                  THEN /\ frame' = [frame EXCEPT !.answer = answer, !.askidx = @ + 1]
                       /\ pc' = "ask"
                       /\ question' = NoQuestion
                       /\ UNCHANGED <<ending, turncount, gave_kong>>
                  ELSE /\ frame' = [frame EXCEPT !.answer = answer]
                       /\ gave_kong' =
                             IF /\ answer.type = "Kong"
                                /\ frame.discard \notin Range(Front(discarded))
                             THEN [gave_kong EXCEPT ![question.player] = frame.player]
                             ELSE gave_kong
                       /\ ReturnTurn(ClaimEnding(question.player, answer,
                                                 frame.discard, frame.player))
               /\ UNCHANGED <<hands, shown, discarded, discarders>>
          ELSE /\ frame' = [frame EXCEPT !.answer = answer, !.meld = answer]
               /\ discarded' = IF answer # NoMeld THEN Front(discarded) ELSE discarded
               /\ discarders' = IF answer # NoMeld THEN Front(discarders) ELSE discarders
               /\ shown' = IF answer # NoMeld
                           THEN [shown EXCEPT ![frame.player] = Append(@, answer)]
                           ELSE shown
               /\ hands' = IF answer # NoMeld
                           THEN [hands EXCEPT ![frame.player] =
                                   HandAfterShow(@, ending.discard, answer)]
                           ELSE hands
               /\ pc' = "melded"
               /\ question' = NoQuestion
               /\ UNCHANGED <<ending, turncount, gave_kong>>
    /\ UNCHANGED <<wall, twelve_piece, gave_dragon, wind, result, wvars, score, match>>

\* a won hand that is never told apart from a dealer's
WonEndingAlwaysNormal(wu, choice) ==
    HandEnding("NORMAL", ending.winner, wu, choice)

\* the HandEnding of a won hand: DEALER_WON if the winner sits at the wind
WonEnding(wu, choice) ==
    HandEnding(IF ending.winner = wind THEN "DEALER_WON" ELSE "NORMAL",
               ending.winner, wu, choice)

\* the penalty flags with the twelve-piece giver written before the dragon giver
PenaltiesDragonLast(wu, winner) ==
    LET w1 == IF Len(wall) <= 0
              THEN [wu EXCEPT !.base_flags = @ \cup {"LAST_CATCH"}]
              ELSE wu
        w2 == IF "SELF_DRAW" \in w1.base_flags /\ twelve_piece[winner] # NoSeat
              THEN [w1 EXCEPT !.base_flags = @ \cup {"TWELVE_PIECE"},
                              !.discarder = twelve_piece[winner]]
              ELSE w1
    IN  IF gave_dragon[winner] # NoSeat
        THEN [w2 EXCEPT !.base_flags = @ \cup {"GAVE_DRAGON"},
                        !.discarder = gave_dragon[winner]]
        ELSE w2

\* the flags Hand.execute adds to the winning Wu from the books of the hand
Penalties(wu, winner) ==
    LET w1 == IF Len(wall) <= 0
              THEN [wu EXCEPT !.base_flags = @ \cup {"LAST_CATCH"}]
              ELSE wu
        w2 == IF gave_dragon[winner] # NoSeat
              THEN [w1 EXCEPT !.base_flags = @ \cup {"GAVE_DRAGON"},
                              !.discarder = gave_dragon[winner]]
              ELSE w1
    IN  IF "SELF_DRAW" \in w2.base_flags /\ twelve_piece[winner] # NoSeat
        THEN [w2 EXCEPT !.base_flags = @ \cup {"TWELVE_PIECE"},
                        !.discarder = twelve_piece[winner]]
        ELSE w2

\* a Wu that is asked about even with a single decomposition
AmbiguousOrSingle(wu) ==
    Cardinality(wu.melds) >= 1

\* len(ending.wu.melds) > 1: the winner has to pick a decomposition
Ambiguous(wu) ==
    Cardinality(wu.melds) > 1

\* Hand.execute after its loop, up to WHICH_WU or to its return
HandFinish ==
    /\ pc = "loop"
    /\ ~LoopTest
    /\ IF ending.winner = NoSeat \/ ending.wu = NoMeld
       THEN /\ result' = HandEnding("GOULASH", NoSeat, NoMeld, NoChoice)
            /\ pc' = "done"
            /\ UNCHANGED <<ending, question>>
       ELSE LET w3 == Penalties(ending.wu, ending.winner)
            IN  /\ ending' = [ending EXCEPT !.wu = w3]
                /\ IF Ambiguous(w3)
                   THEN /\ Yield(UserIO("WHICH_WU", w3.melds, NoSeat, NoTile, NoMeld))
                        /\ UNCHANGED result
                   ELSE /\ result' = WonEnding(w3, CHOOSE c \in w3.melds : TRUE)
                        /\ pc' = "done"
                        /\ UNCHANGED question
    /\ UNCHANGED <<table, books, frame, wind, turncount, wvars, score, match>>

\* the answer to WHICH_WU, and the return of Hand.execute
AnswerWhichWu ==
    /\ pc = "yield" /\ question.question = "WHICH_WU"
    /\ \E answer \in question.melds : result' = WonEnding(ending.wu, answer)
    /\ pc' = "done"
    /\ question' = NoQuestion
    /\ UNCHANGED <<table, books, frame, wind, turncount, ending, wvars, score, match>>

\* ending.points(min_faan), called on the HandEnding of a won hand
PointsCall ==
    /\ pc = "done"
    /\ score = NoScore
    /\ result.result \in {"NORMAL", "DEALER_WON"}
    /\ \E min_faan \in {0, DefaultMinFaan}, bonus \in BonusFaans :
          score' = Points(result, wind, min_faan, RandomApp, bonus)
    /\ UNCHANGED <<table, books, wind, turncount, ending, pc, question, frame, result,
                   wvars, match>>

Next ==
    \/ TurnStart
    \/ AfterMeld
    \/ RobCheck
    \/ AnswerRobKong
    \/ Draw
    \/ AnswerSelfDraw
    \/ CheckEkfcp
    \/ AnswerEkfcp
    \/ CheckEkfep
    \/ AnswerEkfep
    \/ AnswerDiscard
    \/ AskNext
    \/ AnswerMeldFromDiscard
    \/ HandFinish
    \/ AnswerWhichWu
    \/ PointsCall

Spec == Init /\ [][Next]_vars

\* the late positions: the hands whose wall holds WallLen tiles
InitLate == Init /\ Len(wall) <= WallLen

\* a hand played from one of the late positions by a driver that answers
\* every question: the generator is resumed until it returns
SpecFair == InitLate /\ [][Next]_vars /\ WF_vars(Next)

\* ------------------------------------------------ Game.execute / Round.execute

\* hands of one round that leave the deal where it is and are followed
MaxExtraHands == 2

HandResults == {"NORMAL", "GOULASH", "DEALER_WON"}

\* a sequencer that moves the deal on after every hand
AdvancesAlways(res, extra_hands) ==
    TRUE

\* Step 06 and the house rule: the hand moves the deal to the next seat
Advances(res, extra_hands) ==
    res = "NORMAL" \/ ~extra_hands

\* Round.execute from `self.hand = Hand(self)` to `yield result`, the hand
\* dealt by seat m.i returning `res`
PlayHand(m, res) ==
    LET adv == Advances(res, m.extra_hands)
    IN  [m EXCEPT !.pc = "ended",
                  !.dealer = m.i,
                  !.result = res,
                  !.i = (IF adv THEN m.i + 1 ELSE m.i) % 4,
                  !.j = IF adv THEN m.j + 1 ELSE m.j,
                  !.hands = m.hands + 1,
                  !.normals = IF res = "NORMAL" THEN m.normals + 1 ELSE m.normals,
                  !.extra = IF adv THEN m.extra ELSE m.extra + 1]

\* Round(self).execute(w) up to its loop
EnterRound(m, w) ==
    [m EXCEPT !.round = w, !.wind = w, !.i = w, !.j = 0, !.hands = 0, !.normals = 0,
              !.extra = 0]

\* the results a hand may return; once MaxExtraHands hands of the round have
\* left the deal where it was, only a hand that moves it is followed
ResultsTried(m) ==
    IF m.extra < MaxExtraHands THEN HandResults ELSE {"NORMAL"}

\* Game(**house_rules), before play()
InitGame ==
    /\ NoWuCall
    /\ NoHand
    /\ score = NoScore
    /\ \E extra_hands \in BOOLEAN :
          match = [pc |-> "new", extra_hands |-> extra_hands, round |-> 0, wind |-> 0,
                   i |-> 0, j |-> 0, dealer |-> 0, result |-> "None", hands |-> 0,
                   normals |-> 0, extra |-> 0, readies |-> 0]

\* Game.play: the first round and its first hand, up to the HandEnding yielded
GamePlay ==
    /\ match.pc = "new"
    /\ \E res \in ResultsTried(EnterRound(match, 0)) :
          match' = PlayHand(EnterRound(match, 0), res)
    /\ UNCHANGED <<wvars, gvars, score>>

\* the answer to a HandEnding: the next hand of the round, or the end of the
\* round and the READY_Q of Game.execute
AnswerHandEnding ==
    /\ match.pc = "ended"
    /\ IF match.j < 4
       THEN \E res \in ResultsTried(match) : match' = PlayHand(match, res)
       ELSE match' = [match EXCEPT !.pc = "ready", !.readies = @ + 1]
    /\ UNCHANGED <<wvars, gvars, score>>

\* the answer to READY_Q: the next round and its first hand, or the end of
\* Game.execute after the fourth round
AnswerReady ==
    /\ match.pc = "ready"
    /\ IF match.round + 1 < 4
       THEN \E res \in ResultsTried(EnterRound(match, match.round + 1)) :
               match' = PlayHand(EnterRound(match, match.round + 1), res)
       ELSE match' = [match EXCEPT !.pc = "over"]
    /\ UNCHANGED <<wvars, gvars, score>>

NextGame ==
    \/ GamePlay
    \/ AnswerHandEnding
    \/ AnswerReady

SpecGame == InitGame /\ [][NextGame]_vars

\* ------------------------------------------------- properties of a hand

\* the seats that were asked about the discard and answered None
Declined == {frame.pairs[i].player : i \in 1..(frame.askidx - 1)}

\* check_others_melds is waiting for a seat's answer about the discard
AskedAboutDiscard ==
    /\ pc = "yield"
    /\ question.question = "MELD_FROM_DISCARD_Q"
    /\ frame.site = "others"

HasType(melds, type) == \E i \in 1..Len(melds) : melds[i].type = type

\* the discard completes a Chow for seat a, a Pong for seat b, a Wu for seat c
ThreeWayClaim(a, b, c) ==
    /\ a = (frame.player + 1) % 4
    /\ Cardinality({a, b, c, frame.player}) = 4
    /\ HasType(frame.overall[a], "Chow")
    /\ HasType(frame.overall[b], "Pong")
    /\ HasType(frame.overall[c], "Wu")

\* C1: when one discard completes a Chow for the next seat A, a Pong for
\* seat B and a Wu for seat C, the question goes to C first, to B only
\* after C declined, and to A only after C and B both declined.
C1_WuThenPongThenChow ==
    \A a, b, c \in Seats :
        (AskedAboutDiscard /\ ThreeWayClaim(a, b, c)) =>
            \/ question.player = c
            \/ question.player = b /\ c \in Declined
            \/ question.player = a /\ {b, c} \subseteq Declined

\* what a seat can claim on the discard, from the table as it stands
LiveClaim(s) ==
    OthersMelds(hands[s], shown[s], frame.discard,
                s = (frame.player + 1) % 4, frame.player) # <<>>

C2_Asked ==
    AskedAboutDiscard =>
        /\ question.player # frame.player
        /\ LiveClaim(question.player)
        /\ question.arrived = discarded[Len(discarded)]
        /\ frame.askidx > 1 => frame.answer = NoMeld

C2_Answered ==
    AskedAboutDiscard =>
        IF frame'.answer = NoMeld
        THEN pc' = "ask" /\ ending' = ending /\ frame'.askidx = frame.askidx + 1
        ELSE /\ pc' = "loop"
             /\ question' = NoQuestion
             /\ ending' =
                  IF frame'.answer.type = "Wu"
                  THEN TurnEnding(question.player, NoTile, NoSeat, frame'.answer,
                                  NoMeld, FALSE, NoSeat)
                  ELSE TurnEnding(NoSeat, frame.discard, question.player, NoMeld,
                                  frame'.answer, FALSE, frame.player)

\* C2: in the arbitration over one discard only seats with a claim on it are
\* asked, a seat is asked only while every seat asked before it answered
\* None, and a non-None answer ends the arbitration at once: no other seat
\* is asked and the turn ends as that seat's win or as its jump with the
\* meld it answered.
C2_FirstClaimEndsArbitration == [](C2_Asked) /\ [][C2_Answered]_vars

\* a seat other than the first one asked took the discard for a Pong or Kong
C2_Witness ==
    /\ pc = "loop"
    /\ frame.site = "others"
    /\ frame.askidx > 1
    /\ frame.answer # NoMeld
    /\ ending.jumped_with = frame.answer
    /\ ending.seat = frame.pairs[frame.askidx].player

\* seat 2 answers with a Kong to seat 1's discard of a tile that no earlier
\* discard shows
C3_Recorded ==
    (/\ AskedAboutDiscard
     /\ question.player = 2
     /\ frame.player = 1
     /\ frame.discard \notin Range(Front(discarded))
     /\ frame'.answer.type = "Kong")
    => gave_kong'[2] = 1

\* seat 2, whose kong-giver is seat 1, accepted the Wu offered on the first
\* draw of the turn it entered with the Kong it claimed
C3_Flagged ==
    (/\ pc = "loop"
     /\ frame.player = 2
     /\ frame.meld.type = "Kong"
     /\ frame.tries = 0
     /\ gave_kong[2] = 1
     /\ ending.winner = 2
     /\ ending.wu = frame.wu
     /\ "SELF_DRAW" \in ending.wu.base_flags)
    => /\ "GAVE_KONG" \in ending.wu.base_flags
       /\ ending.wu.discarder = 1

\* C3: seat 2 took seat 1's discard, a tile not discarded before, for a
\* Kong: seat 1 is recorded as its kong-giver, and the Wu seat 2 accepts on
\* the draw that replaces the Kong's tile carries GAVE_KONG with seat 1 as
\* discarder.
C3_KongGiverPaysOnCompensationDraw == [][C3_Recorded]_vars /\ [](C3_Flagged)

\* C4: the hand returns one HandEnding: GOULASH without winner, wu or
\* choice exactly when the last turn had no winner, DEALER_WON exactly when
\* the winner sits at the hand's wind, NORMAL for any other winner, and a
\* won hand names its winner, its Wu and one of the Wu's decompositions.
C4_TerminalResult ==
    IF pc = "done"
    THEN /\ result.result \in {"GOULASH", "DEALER_WON", "NORMAL"}
         /\ (result.result = "GOULASH") <=> (ending.winner = NoSeat)
         /\ (result.result = "DEALER_WON") <=>
                (ending.winner # NoSeat /\ ending.winner = wind)
         /\ IF result.result = "GOULASH"
            THEN result = HandEnding("GOULASH", NoSeat, NoMeld, NoChoice)
            ELSE /\ result.winner = ending.winner
                 /\ result.winner \in Seats
                 /\ result.wu.type = "Wu"
                 /\ result.wu = ending.wu
                 /\ result.choice \in result.wu.melds
    ELSE result = NoResult

\* the dealer won on a Wu with more than one decomposition
C4_Witness ==
    /\ pc = "done"
    /\ result.result = "DEALER_WON"
    /\ result.winner = wind
    /\ Cardinality(result.wu.melds) > 1

\* ------------------------------------------------- properties of Wu()

RECURSIVE Groupings(_, _, _, _)
\* Every way to split the sorted tile list ts into `need` melds and, if
\* `eyes`, one Eyes pair, as lists of melds; the melds are Pongs and Chows,
\* and Kongs too if `kongs`.  The lowest tile left is grouped first.
Groupings(ts, need, eyes, kongs) ==
    IF ts = <<>> THEN (IF need = 0 /\ ~eyes THEN {<<>>} ELSE {})
    ELSE LET t == ts[1]
             n == Count(ts, t)
             With(meld, nd, ey) ==
                 { <<meld>> \o g : g \in Groupings(RemoveAll(ts, meld.tiles), nd, ey, kongs) }
         IN  (IF eyes /\ n >= 2 THEN With(Eyes(<<t, t>>), need, FALSE) ELSE {})
             \cup (IF need > 0 /\ n >= 3
                   THEN With(Pong(<<t, t, t>>), need - 1, eyes) ELSE {})
             \cup (IF kongs /\ need > 0 /\ n >= 4
                   THEN With(Kong(<<t, t, t, t>>), need - 1, eyes) ELSE {})
             \cup (IF /\ need > 0 /\ SuitOf(t) \in Simples /\ NumberOf(t) <= 6
                      /\ t + 1 \in Range(ts) /\ t + 2 \in Range(ts)
                   THEN With(Chow(<<t, t + 1, t + 2>>), need - 1, eyes) ELSE {})

\* C5: for every 14-tile concealed set that splits into an Eyes pair and four
\* melds each a Pong or a Chow, Wu() succeeds and Wu.melds holds that split
\* as a sorted meld list.
C5_PartitionIsFound ==
    (wpc = "built" /\ wfixed = <<>> /\ Len(wtiles) = 14) =>
        \A g \in Groupings(wtiles, 4, TRUE, FALSE) :
            wobj # NoMeld /\ SortMelds(g) \in wobj.melds

\* a built 14-tile hand one of whose splits has a Pong of a tile held four
\* times (the fourth copy sits in a Chow)
C5_Witness ==
    /\ wpc = "built" /\ wfixed = <<>> /\ Len(wtiles) = 14 /\ wobj # NoMeld
    /\ \E g \in Groupings(wtiles, 4, TRUE, FALSE) :
          /\ SortMelds(g) \in wobj.melds
          /\ \E i \in 1..Len(g) : g[i].type = "Pong" /\ Count(wtiles, g[i].tiles[1]) = 4

\* C6: Wu() raises ValueError for every collection that is neither an Eyes
\* pair with (4 - exposed) valid melds nor the thirteen reference tiles plus
\* exactly one more tile (so thirteen-orphans collections of 15 to 18 tiles
\* are rejected), and a Wu that is built has a non-empty melds list.
C6_OnlyWinningHandsAreBuilt ==
    (wpc = "built" /\ wobj # NoMeld) =>
        /\ wobj.melds # {}
        /\ \/ Groupings(wtiles, 4 - Len(wfixed), TRUE, TRUE) # {}
           \/ /\ wfixed = <<>> /\ Len(wtiles) = 14
              /\ THIRTEEN_ORPHANS \subseteq Range(wtiles)

\* the hand of scenario 1: tong 1,1,1,2,3,4,5,6,7,8,9,9,9 and tong 5
NineGatesOnFive ==
    SortTiles(<<10, 10, 10, 11, 12, 13, 14, 15, 16, 17, 18, 18, 18>> \o <<Tile(TONG, 4)>>)

\* C7: for tong 1,1,1,2,3,4,5,6,7,8,9,9,9,5 with no exposed melds Wu()
\* succeeds and, for each decomposition, Wu.flags has NINE_GATES and has not
\* ALL_ONE_SUIT.
C7_NineGatesFlagged ==
    (wtiles = NineGatesOnFive /\ wfixed = <<>>) =>
        /\ wpc = "built" => wobj # NoMeld
        /\ wpc = "flagged" => ("NINE_GATES" \in wflags /\ "ALL_ONE_SUIT" \notin wflags)

\* C8: the thirteen reference tiles plus any 14th tile make Wu() succeed
\* with the single one-element thirteen-orphans decomposition.
C8_ThirteenOrphansPlusAnyTile ==
    (/\ wpc = "built" /\ wfixed = <<>> /\ Len(wtiles) = 14
     /\ THIRTEEN_ORPHANS \subseteq Range(wtiles)) =>
        wobj # NoMeld /\ wobj.melds = { <<UncheckedWu(wtiles)>> }

\* C9: the flags Wu.flags returns never hold a trigger flag together with a
\* flag it suppresses: NINE_GATES with ALL_ONE_SUIT, THIRTEEN_ORPHANS with
\* ORPHANS or MIXED_ORPHANS, SELF_TRIPLETS with ALL_IN_TRIPLETS or
\* ALL_FROM_WALL.
C9_SuppressedFlagsAbsent ==
    wpc = "flagged" =>
        /\ "NINE_GATES" \in wflags => "ALL_ONE_SUIT" \notin wflags
        /\ "THIRTEEN_ORPHANS" \in wflags =>
              ("ORPHANS" \notin wflags /\ "MIXED_ORPHANS" \notin wflags)
        /\ "SELF_TRIPLETS" \in wflags =>
              ("ALL_IN_TRIPLETS" \notin wflags /\ "ALL_FROM_WALL" \notin wflags)

\* Wu.flags returned SELF_TRIPLETS for a hand whose flags, before the unset
\* block, held both flags it suppresses
C9_Witness ==
    /\ wpc = "flagged" /\ "SELF_TRIPLETS" \in wflags
    /\ {"ALL_IN_TRIPLETS", "ALL_FROM_WALL"} \subseteq RawFlags(wobj, wchoice, wwinds)

\* the decomposition is three Pongs and a Chow of one simple suit and an
\* Eyes pair of an honor tile
ThreePongsChowHonorEyes(choice) ==
    /\ Len(choice) = 5
    /\ \E suit \in Simples :
          /\ Cardinality({i \in 1..5 : choice[i].type = "Pong"
                                        /\ SuitOf(choice[i].tiles[1]) = suit}) = 3
          /\ Cardinality({i \in 1..5 : choice[i].type = "Chow"
                                        /\ SuitOf(choice[i].tiles[1]) = suit}) = 1
    /\ \E i \in 1..5 : choice[i].type = "Eyes" /\ SuitOf(choice[i].tiles[1]) \in Honors

\* C10: for three Pongs and a Chow of one simple suit with an honor Eyes
\* pair, Wu.flags has MIXED_ONE_SUIT and has none of ALL_IN_TRIPLETS,
\* ALL_ONE_SUIT, ALL_HONOR_TILES.
C10_MixedOneSuitWithChow ==
    (wpc = "flagged" /\ ThreePongsChowHonorEyes(wchoice)) =>
        /\ "MIXED_ONE_SUIT" \in wflags
        /\ "ALL_IN_TRIPLETS" \notin wflags
        /\ "ALL_ONE_SUIT" \notin wflags
        /\ "ALL_HONOR_TILES" \notin wflags

\* Wu.flags was called on such a decomposition
C10_Witness ==
    wpc = "flagged" /\ ThreePongsChowHonorEyes(wchoice)

\* the point value the table is meant to give a flag
FaanValue(f) ==
    IF f = "GREAT_WINDS" THEN 13
    ELSE IF f \in {"RED_DRAGON", "GREEN_DRAGON", "WHITE_DRAGON"} THEN 1
    ELSE FLAG_FAAN[f]

\* C11: for every flag set Wu.flags returns, faan(flags) is defined and is
\* the sum of the per-flag values of the flags present, GREAT_WINDS counting
\* 13 and each dragon flag 1.
C11_FaanIsSumOfFlagValues ==
    wpc = "scored" =>
        /\ wfaan # KeyError
        /\ wfaan = Returned(SumFaan(wflags, [f \in wflags |-> FaanValue(f)]))

\* the seat whose discard is the last of the history
LastDiscarder == discarders[Len(discarders)]

\* the hand holds two tiles that make a Chow with the tile
CouldChow(hand, tile) ==
    \E i, j \in 1..Len(hand) : i < j /\ ChowOk(<<hand[i], hand[j], tile>>)

\* C12: of the melds a seat is offered on a discard, a Chow is offered only
\* to the seat after the discarder, the other seats are offered Pong, Kong
\* or Wu only, and the discarder is not offered its own discard.
C12_ChowOnlyForNextSeat ==
    (pc = "yield" /\ question.question = "MELD_FROM_DISCARD_Q") =>
        /\ question.player # LastDiscarder
        /\ question.arrived = discarded[Len(discarded)]
        /\ \A i \in 1..Len(question.melds) :
              /\ question.melds[i].type \in {"Pong", "Kong", "Chow", "Wu"}
              /\ question.melds[i].type = "Chow" =>
                    question.player = (LastDiscarder + 1) % 4
        /\ frame.site = "others" =>
              /\ frame.overall[LastDiscarder] = <<>>
              /\ \A s \in Seats : HasType(frame.overall[s], "Chow") =>
                                      s = (LastDiscarder + 1) % 4

\* a seat that is not next and holds two tiles in sequence with the discard
\* is asked
C12_Witness ==
    /\ AskedAboutDiscard
    /\ question.player # (LastDiscarder + 1) % 4
    /\ CouldChow(hands[question.player], question.arrived)

\* the last turn ended with its discard left unclaimed
DiscardUnclaimed ==
    /\ pc = "loop"
    /\ ending.winner = NoSeat
    /\ ending.discard # NoTile
    /\ ending.jumped_with = NoMeld

\* check_others_melds returns without a thief
NoThief == pc = "ask" /\ frame.askidx > Len(frame.pairs)

C13_Returned ==
    NoThief =>
        /\ pc' = "loop"
        /\ ending' = TurnEnding(NoSeat, frame.discard, (frame.player + 1) % 4, NoMeld,
                                NoMeld, LiveClaim((frame.player + 1) % 4), frame.player)
        /\ frame.player = LastDiscarder
        /\ frame.discard = discarded[Len(discarded)]

C13_NextTurnDraws ==
    /\ (DiscardUnclaimed /\ wall # <<>>) =>
          /\ pc' = "melded"
          /\ question' = NoQuestion
          /\ frame'.player = ending.seat
          /\ frame'.meld = NoMeld
          /\ discarded' = discarded
    /\ (pc = "melded" /\ frame.meld = NoMeld) => (pc' = "draw" /\ frame'.tries = 0)

\* C13 (amended): when no seat accepts the actor's discard, Turn.execute
\* returns a NextSeat ending with seat (actor + 1) % 4, prev_seat the actor
\* and offered set exactly when the next seat had a claim on the discard;
\* the next turn asks no MELD_FROM_DISCARD_Q and goes straight to drawing.
C13_NextSeatDrawsUnasked == [][C13_Returned]_vars /\ [][C13_NextTurnDraws]_vars

\* C13 as stated: the NextSeat ending has offered set
C13_OfferedAlwaysSet ==
    (DiscardUnclaimed /\ frame.site = "others" /\ frame.askidx > Len(frame.pairs)) =>
        /\ ending.seat = (LastDiscarder + 1) % 4
        /\ ending.prev_seat = LastDiscarder
        /\ ending.offered

\* every seat with a claim declined, the next seat had none, and the turn
\* returned its NextSeat ending
C13_Witness ==
    /\ DiscardUnclaimed
    /\ frame.site = "others"
    /\ Len(frame.pairs) >= 1
    /\ frame.askidx > Len(frame.pairs)
    /\ ending.seat = (frame.player + 1) % 4
    /\ ~ending.offered

\* a turn is about to start from a JumpSeat ending
JumpStart ==
    /\ pc = "loop"
    /\ ending.winner = NoSeat /\ wall # <<>>
    /\ ending.jumped_with # NoMeld

C14_Retracted ==
    JumpStart =>
        /\ Len(discarded') = Len(discarded) - 1
        /\ Len(discarders') = Len(discarders) - 1
        /\ \A i \in 1..Len(discarded') :
              discarded'[i] = discarded[i] /\ discarders'[i] = discarders[i]
        /\ discarded[Len(discarded)] = ending.discard
        /\ discarders[Len(discarders)] = ending.prev_seat
        /\ shown'[ending.seat] = Append(shown[ending.seat], ending.jumped_with)
        /\ \A s \in Seats \ {ending.seat} : shown'[s] = shown[s]

C14_ShownBeforeDiscard ==
    (pc = "yield" /\ question.question = "DISCARD_WHAT" /\ question.last_meld # NoMeld) =>
        \E i \in 1..Len(shown[question.player]) :
            shown[question.player][i] = question.last_meld

\* C14: a turn started from a JumpSeat ending removes exactly the last entry
\* of the discard history and of the discarder list, that entry being the
\* claimed discard and its discarder, leaves the earlier entries as they
\* were, and attaches the claimed meld to the claiming seat's exposed melds
\* before that seat is asked for its discard.
C14_JumpRetractsDiscard == [][C14_Retracted]_vars /\ [](C14_ShownBeforeDiscard)

\* the seat that claimed a Kong is asked for its discard
C14_Witness ==
    /\ pc = "yield"
    /\ question.question = "DISCARD_WHAT"
    /\ question.last_meld.type = "Kong"
    /\ Len(shown[question.player]) = 1

\* ---- C15 ----
\* the step of Hand.execute that finishes a won hand
WinFinish ==
    pc = "loop" /\ ending.winner # NoSeat /\ ending.wu # NoMeld

PenaltyFlags == {"LAST_CATCH", "GAVE_DRAGON", "TWELVE_PIECE"}

\* the three flags are added exactly under their conditions, and nothing else of the Wu moves
C15_FlagsAdded ==
    WinFinish =>
        LET w == ending.wu
            f == ending'.wu.base_flags
            giver == gave_dragon[ending.winner]
            fourth == twelve_piece[ending.winner]
        IN  /\ f \ PenaltyFlags = w.base_flags
            /\ ("LAST_CATCH" \in f) = (wall = <<>>)
            /\ ("GAVE_DRAGON" \in f) = (giver # NoSeat)
            /\ ("TWELVE_PIECE" \in f) = ("SELF_DRAW" \in w.base_flags /\ fourth # NoSeat)
            /\ [ending'.wu EXCEPT !.base_flags = {}, !.discarder = NoSeat]
                   = [w EXCEPT !.base_flags = {}, !.discarder = NoSeat]

\* each penalty flag comes with the discarder set to its own giver
C15_EachGiverIsDiscarder ==
    WinFinish =>
        LET f == ending'.wu.base_flags
        IN  /\ "GAVE_DRAGON" \in f => ending'.wu.discarder = gave_dragon[ending.winner]
            /\ "TWELVE_PIECE" \in f => ending'.wu.discarder = twelve_piece[ending.winner]

\* the discarder is the fourth-meld giver under TWELVE_PIECE, else the dragon giver
\* under GAVE_DRAGON, else the seat the turn recorded
C15_TwelvePieceGiverFirst ==
    WinFinish =>
        LET f == ending'.wu.base_flags
        IN  ending'.wu.discarder =
                IF "TWELVE_PIECE" \in f THEN twelve_piece[ending.winner]
                ELSE IF "GAVE_DRAGON" \in f THEN gave_dragon[ending.winner]
                ELSE ending.wu.discarder

C15_DragonGiverPaysForDiscard ==
    /\ result.result \in {"NORMAL", "DEALER_WON"}
    /\ "GAVE_DRAGON" \in result.wu.base_flags
    /\ "SELF_DRAW" \notin result.wu.base_flags
    /\ result.wu.discarder # discarders[Len(discarders)]

\* ---- C16 ----
\* WHICH_WU is pending
WhichWuPending ==
    pc = "yield" /\ question.question = "WHICH_WU"

\* finishing a won hand asks WHICH_WU exactly when the Wu has several decompositions;
\* with one decomposition the hand returns at once with it as the choice
C16_AskedIffSeveral ==
    WinFinish =>
        IF Cardinality(ending'.wu.melds) > 1
        THEN /\ WhichWuPending'
             /\ question'.melds = ending'.wu.melds
             /\ result' = NoResult
        ELSE /\ ~WhichWuPending'
             /\ question' = question
             /\ result' # NoResult
             /\ result'.wu = ending'.wu
             /\ ending'.wu.melds = {result'.choice}

\* WHICH_WU is asked by no other step
C16_AskedOnlyThen ==
    (~WhichWuPending /\ WhichWuPending') => WinFinish

\* while WHICH_WU is pending the Wu already carries its penalty and last-tile flags
\* and the hand has not returned
C16_FlagsBeforeQuestion ==
    WhichWuPending =>
        /\ result = NoResult
        /\ ("LAST_CATCH" \in ending.wu.base_flags) = (wall = <<>>)
        /\ ("GAVE_DRAGON" \in ending.wu.base_flags) = (gave_dragon[ending.winner] # NoSeat)
        /\ ("TWELVE_PIECE" \in ending.wu.base_flags)
              = ("SELF_DRAW" \in ending.wu.base_flags /\ twelve_piece[ending.winner] # NoSeat)

\* the answer to WHICH_WU is the choice of the terminal result, whose Wu is the flagged one
C16_AnswerIsChoice ==
    WhichWuPending =>
        /\ pc' = "done"
        /\ result' # NoResult
        /\ result'.result \in {"NORMAL", "DEALER_WON"}
        /\ result'.choice \in question.melds
        /\ result'.wu = ending.wu
        /\ result'.winner = ending.winner

\* C16: after a won hand WHICH_WU is asked iff the winning Wu has more than one
\* decomposition, after the penalty and last-tile flags are attached and before the
\* terminal result, whose choice is the answer; with one decomposition nothing is
\* asked and that decomposition is the choice.
C16_WhichWuIffAmbiguous ==
    /\ [][C16_AskedIffSeveral /\ C16_AskedOnlyThen /\ C16_AnswerIsChoice]_vars
    /\ [](C16_FlagsBeforeQuestion)

\* a hand returned after WHICH_WU was answered for a Wu carrying LAST_CATCH
C16_Witness ==
    /\ pc = "done"
    /\ result.result \in {"NORMAL", "DEALER_WON"}
    /\ Cardinality(result.wu.melds) > 1
    /\ "LAST_CATCH" \in result.wu.base_flags
    /\ result.choice \in result.wu.melds

\* a hand returned without WHICH_WU: the only decomposition is the choice
C16_WitnessSingle ==
    /\ pc = "done"
    /\ result.result \in {"NORMAL", "DEALER_WON"}
    /\ result.wu.melds = {result.choice}

\* ---- C17 ----
\* a turn has just returned a win, claimed in arbitration by a seat other than
\* the dealer, on the dealer's discard of turn 0
WonOnFirstDiscard ==
    /\ pc \in {"loop", "yield", "done"}
    /\ turncount = 1
    /\ ending.winner \notin {NoSeat, wind}
    /\ ending.wu # NoMeld
    /\ discarded # <<>>
    /\ discarders = <<wind>>
    /\ ending.wu.arrived = discarded[1]
    /\ "ROBBING_KONG" \notin ending.wu.base_flags

\* C17: a seat other than the dealer that wins by claiming the dealer's first
\* discard of the hand holds a Wu flagged EARTHLY.
C17_EarthlyOnFirstDiscard ==
    WonOnFirstDiscard => "EARTHLY" \in ending.wu.base_flags

\* ---- C18 ----
\* the number of Kongs the four seats expose
KongsShown ==
    Cardinality({<<p, i>> \in Seats \X (1..4) :
                    i <= Len(shown[p]) /\ shown[p][i].type = "Kong"})

RobPending ==
    pc = "yield" /\ question.question = "ROB_KONG_Q"

\* the meld exposed last
LastShown(melds) ==
    melds[Len(melds)]

\* a seat other than the declarer that holds a winning hand with the Kong's tile
CanRob(p) ==
    /\ p # frame.player
    /\ Wu(hands[p] \o <<frame.kong.tiles[1]>>, shown[p], frame.kong.tiles[1],
          frame.player, {}) # NoMeld

\* a Kong is declared by a claim arriving in the turn or by an answer to
\* SHOW_EKFCP_Q / SHOW_EKFEP_Q, and each way enters the robbers' check for that Kong
\* with every seat still to be looked at and no tile drawn
C18_DeclarationEntersCheck ==
    /\ (pc = "melded" /\ frame.meld.type = "Kong") =>
           pc' = "rob" /\ frame'.kong = frame.meld /\ frame'.rob_next = 0
    /\ KongsShown' > KongsShown =>
           /\ wall' = wall
           /\ IF pc = "loop"
              THEN pc' = "melded" /\ frame'.meld = LastShown(shown'[frame'.player])
                   /\ frame'.meld.type = "Kong"
              ELSE /\ pc = "yield"
                   /\ question.question \in {"SHOW_EKFCP_Q", "SHOW_EKFEP_Q"}
                   /\ pc' = "rob" /\ frame'.rob_next = 0
                   /\ frame'.kong = LastShown(shown'[frame.player])
                   /\ frame'.kong \in Range(question.melds)

\* the check asks the lowest seat not yet looked at that can rob, with a Wu
\* flagged ROBBING_KONG whose discarder is the declarer; with no such seat left
\* the declarer goes to draw
C18_CheckAsksEachRobber ==
    pc = "rob" =>
        LET left == {p \in Seats : p >= frame.rob_next /\ CanRob(p)}
        IN  /\ wall' = wall /\ hands' = hands
            /\ IF left = {}
               THEN pc' = "draw" /\ question' = question
               ELSE /\ RobPending'
                    /\ \A p \in left : question'.player <= p
                    /\ question'.player \in left
                    /\ frame'.rob_next = question'.player + 1
                    /\ Len(question'.melds) = 1
                    /\ question'.melds[1].type = "Wu"
                    /\ question'.melds[1].base_flags = {"ROBBING_KONG"}
                    /\ question'.melds[1].discarder = frame.player
                    /\ question'.melds[1].arrived = frame.kong.tiles[1]

\* a true answer ends the turn as won by the asked seat with the offered Wu;
\* a false answer resumes the check
C18_AnswerEndsOrResumes ==
    RobPending =>
        IF pc' = "loop"
        THEN ending' = TurnEnding(question.player, NoTile, NoSeat, question.melds[1],
                                  NoMeld, FALSE, NoSeat)
        ELSE pc' = "rob" /\ wall' = wall /\ frame' = frame

\* the draw loop is entered from the robbers' check or by a turn without claim
C18_DrawAfterCheck ==
    (pc # "draw" /\ pc' = "draw") =>
        pc = "rob" \/ (pc = "melded" /\ frame.meld = NoMeld)

\* C18: every Kong declaration (claimed, concealed or promoted) leads, before the
\* declarer's compensation draw, to a ROB_KONG_Q for each other seat that can win
\* with the Kong's tile; the declarer is never asked; the first true answer ends
\* the turn as won by that seat with a Wu flagged ROBBING_KONG whose discarder is
\* the declarer; if all decline the declarer draws.
C18_KongCanBeRobbed ==
    /\ [][/\ C18_DeclarationEntersCheck /\ C18_CheckAsksEachRobber
          /\ C18_AnswerEndsOrResumes /\ C18_DrawAfterCheck]_vars
    /\ [](RobPending => question.player # frame.player)

\* a turn won by robbing a Kong
C18_Witness ==
    /\ pc = "loop"
    /\ ending.winner # NoSeat
    /\ ending.wu # NoMeld
    /\ "ROBBING_KONG" \in ending.wu.base_flags
    /\ ending.wu.discarder = frame.player
    /\ ending.winner # frame.player

\* a robber declined and the declarer of a promoted Kong is about to draw
C18_WitnessDeclined ==
    /\ pc = "draw"
    /\ frame.rob_from = "loop"
    /\ frame.rob_next > 0
    /\ HasType(<<frame.kong>>, "Kong")

\* ---- C19 ----
\* the acting seat is about to draw and the wall is empty
DrawFromEmptyWall ==
    pc = "draw" /\ wall = <<>>

\* the ending of a turn whose draw found no tile
AllNone ==
    [winner |-> NoSeat, discard |-> NoTile, seat |-> NoSeat, wu |-> NoMeld,
     jumped_with |-> NoMeld, offered |-> FALSE, prev_seat |-> NoSeat]

\* the turn ends at once, without winner or seat, and no question is asked
C19_TurnEndsTied ==
    DrawFromEmptyWall =>
        /\ ending' = AllNone
        /\ pc' = "loop"
        /\ question' = NoQuestion
        /\ hands' = hands /\ shown' = shown /\ discarded' = discarded

\* after such an ending the hand returns GOULASH and starts no turn
C19_TiedHandIsGoulash ==
    (pc = "loop" /\ ending = AllNone) =>
        /\ pc' = "done"
        /\ result' = HandEnding("GOULASH", NoSeat, NoMeld, NoChoice)
        /\ question' = NoQuestion

\* C19: if the wall is empty when the acting seat must draw, the turn ends at once
\* with an ending that has neither winner nor seat, DISCARD_WHAT is not asked, and
\* the hand terminates as GOULASH.
C19_EmptyWallIsGoulash ==
    [][C19_TurnEndsTied /\ C19_TiedHandIsGoulash]_vars

\* a hand that ended GOULASH because the draw after a Kong found the wall empty
C19_Witness ==
    /\ pc = "done"
    /\ result.result = "GOULASH"
    /\ ending = AllNone
    /\ wall = <<>>
    /\ frame.kong # NoMeld

\* ---- C20 ----
\* points() was called on the ending of the won hand
Paid ==
    pc = "done" /\ score # NoScore

RECURSIVE SumPoints(_, _)
SumPoints(points, n) ==
    IF n = 0 THEN 0 ELSE points[n] + SumPoints(points, n - 1)

\* the three ways the deltas are laid out for the base b
PenaltyDeltas(b) ==
    [i \in 1..4 |-> IF i = result.winner + 1 THEN 3 * b
                     ELSE IF i = result.wu.discarder + 1 THEN 0 - 3 * b ELSE 0]

DiscardDeltas(b) ==
    [i \in 1..4 |-> IF i = result.winner + 1 THEN 2 * b
                     ELSE IF i = result.wu.discarder + 1 THEN 0 - 2 * b ELSE 0]

SelfDrawDeltas(b) ==
    [i \in 1..4 |-> IF i = result.winner + 1 THEN 3 * b ELSE 0 - b]

\* C20: for a winning hand ending, points(min_faan, table) returns four zeros and
\* no flags when the faan of the hand is below min_faan; otherwise it returns four
\* deltas that sum to zero, only the winner's positive, laid out for
\* base = table[min(faan, largest key)]: +3/-3 base for winner and penalised giver
\* (TWELVE_PIECE or GAVE_KONG with SELF_DRAW, or GAVE_DRAGON), +2/-2 base for
\* winner and discarder on an ordinary discard win, +3 base and -base for each
\* other seat on a plain self-draw.
C20_PointsAreZeroSum ==
    Paid =>
        /\ score.raised = ""
        /\ LET f == HandFaan(result, wind, score.bonus).points
               limit == SetMax(DOMAIN RandomApp)
               b == RandomApp[IF f < limit THEN f ELSE limit]
               flags == result.wu.base_flags
               special == \/ {"TWELVE_PIECE", "SELF_DRAW"} \subseteq flags
                          \/ {"GAVE_KONG", "SELF_DRAW"} \subseteq flags
                          \/ "GAVE_DRAGON" \in flags
           IN  IF f < score.min_faan
               THEN score.points = <<0, 0, 0, 0>> /\ score.none
               ELSE /\ ~score.none
                    /\ SumPoints(score.points, 4) = 0
                    /\ \A i \in 1..4 : (score.points[i] > 0) = (i = result.winner + 1)
                    /\ score.points =
                          IF special THEN PenaltyDeltas(b)
                          ELSE IF "SELF_DRAW" \in flags THEN SelfDrawDeltas(b)
                          ELSE DiscardDeltas(b)

\* points() returned for a penalised hand, a discard win and a plain self-draw
C20_PenaltyPaid ==
    /\ Paid /\ score.raised = "" /\ ~score.none
    /\ score.points = PenaltyDeltas(score.points[result.winner + 1] \div 3)

C20_DiscardPaid ==
    /\ Paid /\ score.raised = "" /\ ~score.none
    /\ result.wu.discarder # NoSeat
    /\ score.points = DiscardDeltas(score.points[result.winner + 1] \div 2)

C20_SelfDrawPaid ==
    /\ Paid /\ score.raised = "" /\ ~score.none
    /\ score.points = SelfDrawDeltas(score.points[result.winner + 1] \div 3)

\* points() raised KeyError for a hand with a green dragon triplet
C20_GreenDragonRaises ==
    /\ Paid /\ score.raised = "KeyError"
    /\ "GREEN_DRAGON" \in WuFlags(result.wu, result.choice, <<result.winner, wind>>)

\* ---- C21 ----
\* a hand of the same round follows the hand just ended
NextHandOfRound ==
    /\ match.pc = "ended" /\ match'.pc = "ended"
    /\ match'.round = match.round

\* with extra hands the deal moves to the next seat after a NORMAL hand and
\* stays after DEALER_WON or GOULASH
C21_DealerMoves ==
    (match.extra_hands /\ NextHandOfRound) =>
        match'.dealer = IF match.result = "NORMAL" THEN (match.dealer + 1) % 4
                        ELSE match.dealer

\* with extra hands a round is left exactly when four of its hands were NORMAL
C21_RoundOfFourNormals ==
    match.extra_hands =>
        /\ (match.pc = "ended" /\ match'.pc = "ready") => match.normals = 4
        /\ NextHandOfRound => match.normals < 4

\* rounds are played for the winds 0, 1, 2, 3 in turn, each followed by one READY_Q
C21_FourRounds ==
    /\ match.pc = "new" => match'.round = 0 /\ match'.wind = 0
    /\ match'.round # match.round =>
           match.pc = "ready" /\ match'.round = match.round + 1
    /\ match'.wind = match'.round
    /\ match'.readies # match.readies =>
           /\ match'.pc = "ready" /\ match.pc = "ended"
           /\ match'.readies = match.round + 1
    /\ match.pc = "ready" =>
           IF match.round = 3 THEN match'.pc = "over" ELSE match'.pc = "ended"
    /\ match'.pc = "over" => match.pc = "ready" /\ match.readies = 4

\* C21: with extra_hands the dealer index moves on by one modulo 4 after a
\* NORMAL hand and stays after DEALER_WON or GOULASH; a round ends after exactly
\* four NORMAL results; Game.execute plays four rounds with the winds 0, 1, 2, 3 in
\* order and asks one READY_Q after each.
C21_DealerRotation ==
    [][C21_DealerMoves /\ C21_RoundOfFourNormals /\ C21_FourRounds]_vars

\* a game with extra hands is over, its last round having repeated a deal
C21_Witness ==
    /\ match.pc = "over"
    /\ match.extra_hands
    /\ match.readies = 4
    /\ match.normals = 4
    /\ match.hands > 4


\* ------------------------------------------------- Pong(), Kong(), Chow(), Eyes()

\* tiles handed to the constructors: four consecutive simples, another simple
\* suit, the three dragons, a flower
MeldTiles == {Tile(WAN, 0), Tile(WAN, 1), Tile(WAN, 2), Tile(WAN, 3), Tile(TONG, 1),
              Tile(LONG, 0), Tile(LONG, 1), Tile(LONG, 2), Tile(HUA, 0)}
MaxMeldLen == 4
MeldTypes == {"Pong", "Kong", "Chow", "Eyes"}

\* cls(tiles): the meld, or the ValueError check_meld raised
NewMeld(cls, tiles) ==
    LET ok == CASE cls = "Pong" -> PongOk(tiles)
                [] cls = "Kong" -> KongOk(tiles)
                [] cls = "Chow" -> ChowOk(tiles)
                [] cls = "Eyes" -> EyesOk(tiles)
    IN  IF ok THEN Meld(cls, tiles) ELSE [type |-> "ValueError", cls |-> cls]

InitMeld ==
    /\ wpc = "tiles"
    /\ \E n \in 0..MaxMeldLen : wtiles \in [1..n -> MeldTiles]
    /\ wfixed = <<>> /\ wobj = NoMeld
    /\ wchoice = <<>> /\ wwinds = NoWinds /\ wflags = {} /\ wfaan = NoFaan
    /\ NoHand
    /\ score = NoScore
    /\ match = NoMatch

\* Pong(tiles), Kong(tiles), Chow(tiles) or Eyes(tiles)
MeldNew ==
    /\ wpc = "tiles"
    /\ \E cls \in MeldTypes : wobj' = NewMeld(cls, wtiles)
    /\ wpc' = "built"
    /\ UNCHANGED <<wtiles, wfixed, wchoice, wwinds, wflags, wfaan, gvars, score, match>>

SpecMeld == InitMeld /\ [][MeldNew]_vars

\* C22: a meld is built exactly when its tiles are the variant's shape,
\* whatever order they come in, and ValueError is raised otherwise.  The shape
\* is stated on the tiles as a collection: Pong, Kong and Eyes are 3, 4 and 2
\* copies of one tile that is not a bonus tile; Chow is one tile each of n,
\* n+1, n+2 of one simple suit.  Exchanging any two of the tiles supplied
\* gives the same outcome (every tuple over MeldTiles is an input, so this
\* covers every reordering).
C22_Copies(ts, n) ==
    /\ Len(ts) = n
    /\ \A i \in 1..Len(ts) : ts[i] = ts[1] /\ SuitOf(ts[i]) \notin Bonuses

C22_Run(ts) ==
    /\ Len(ts) = 3
    /\ \E s \in Simples, n \in 0..6 :
          Range(ts) = {Tile(s, n), Tile(s, n + 1), Tile(s, n + 2)}

C22_Shape(cls, ts) ==
    CASE cls = "Pong" -> C22_Copies(ts, 3)
      [] cls = "Kong" -> C22_Copies(ts, 4)
      [] cls = "Eyes" -> C22_Copies(ts, 2)
      [] cls = "Chow" -> C22_Run(ts)

C22_Swap(ts, i, j) ==
    [k \in 1..Len(ts) |-> IF k = i THEN ts[j] ELSE IF k = j THEN ts[i] ELSE ts[k]]

C22_Built(cls) ==
    /\ wobj.type = cls
    /\ Len(wobj.tiles) = Len(wtiles)
    /\ \A t \in MeldTiles : Count(wobj.tiles, t) = Count(wtiles, t)
    /\ \A i \in 1..(Len(wobj.tiles) - 1) : wobj.tiles[i] <= wobj.tiles[i + 1]

C22_MeldIffShape ==
    wpc = "built" =>
       \E cls \in MeldTypes :
          /\ IF C22_Shape(cls, wtiles)
             THEN C22_Built(cls)
             ELSE wobj = [type |-> "ValueError", cls |-> cls]
          /\ (\E i \in 1..Len(wtiles) : SuitOf(wtiles[i]) \in Bonuses)
                => wobj.type = "ValueError"
          /\ \A i, j \in 1..Len(wtiles) : NewMeld(cls, C22_Swap(wtiles, i, j)) = wobj

\* a Chow built from tiles supplied out of order
C22_Witness ==
    /\ wpc = "built"
    /\ wobj.type = "Chow"
    /\ wtiles # wobj.tiles

\* C23: the Wu offered for a self-draw win on the k-th draw of a turn
\* carries SELF_DRAW, HEAVENLY iff k = 0 on turn 0, BY_KONG iff k = 1,
\* DOUBLE_KONG iff k >= 2, and never BY_KONG with DOUBLE_KONG.  k is counted
\* by the steps: it is 0 when the turn starts and grows by one with every
\* Kong declared in the draw loop (an accepted SHOW_EKFCP_Q or SHOW_EKFEP_Q).
C23_K ==
    frame.tries
      + (IF frame.rob_from = "loop"
            /\ (pc = "rob" \/ (pc = "yield" /\ question.question = "ROB_KONG_Q"))
         THEN 1 ELSE 0)

C23_DeclaresKong ==
    /\ pc = "yield"
    /\ question.question \in {"SHOW_EKFCP_Q", "SHOW_EKFEP_Q"}
    /\ shown' # shown

C23_InTurn(p) == p \in {"melded", "rob", "draw", "ekfcp", "ekfep", "yield"}

C23_KCountsKongs ==
    /\ pc = "loop" /\ C23_InTurn(pc') => C23_K' = 0
    /\ C23_InTurn(pc) /\ C23_InTurn(pc') =>
          C23_K' = IF C23_DeclaresKong THEN C23_K + 1 ELSE C23_K

C23_OfferedFlags ==
    pc = "yield" /\ question.question = "SELF_DRAW_Q" =>
       LET flags == question.melds[1].base_flags
           k == C23_K
       IN  /\ "SELF_DRAW" \in flags
           /\ "HEAVENLY" \in flags <=> (k = 0 /\ turncount = 0)
           /\ "BY_KONG" \in flags <=> k = 1
           /\ "DOUBLE_KONG" \in flags <=> k >= 2
           /\ ~("BY_KONG" \in flags /\ "DOUBLE_KONG" \in flags)

C24_Arrival ==
    /\ pc = "loop" /\ pc' = "melded"
    /\ ending.jumped_with # NoMeld

C24_Covers(ms) ==
    \A d \in 0..2 : \E i \in 1..Len(ms) : ms[i].tiles[1] = Tile(LONG, d)

C24_Recorded(book, p, giver, when) ==
    book' = IF when THEN [book EXCEPT ![p] = giver] ELSE book

C24_GiversAtArrival ==
    IF C24_Arrival
    THEN LET p == ending.seat
             giver == discarders[Len(discarders)]
         IN  /\ discarded[Len(discarded)] = ending.discard
             /\ shown'[p] = Append(shown[p], ending.jumped_with)
             /\ C24_Recorded(twelve_piece, p, giver,
                             Len(shown[p]) = 3 /\ Len(shown'[p]) = 4)
             /\ C24_Recorded(gave_dragon, p, giver,
                             ~C24_Covers(shown[p]) /\ C24_Covers(shown'[p]))
    ELSE UNCHANGED <<twelve_piece, gave_dragon>>

C24_GiversRecorded == [][C24_GiversAtArrival]_vars

\* a seat that has just claimed its fourth exposed meld and was given the
\* third dragon by an earlier claim
C24_Witness ==
    /\ pc = "melded" /\ frame.meld # NoMeld
    /\ Len(shown[frame.player]) = 4
    /\ twelve_piece[frame.player] = ending.prev_seat
    /\ gave_dragon[frame.player] # NoSeat

\* C25: whenever a question is pending, the discard history and the list of
\* discarders have the same length, and the two lists change only together:
\* the seat answering DISCARD_WHAT puts a tile of its hand and itself on the
\* ends of both, a claim takes the last entry off both, so entry i of the
\* discarders stays the seat that discarded entry i.
C25_SameLength ==
    pc = "yield" => Len(discarded) = Len(discarders)

C25_Discards ==
    /\ pc = "yield" /\ question.question = "DISCARD_WHAT"
    /\ \E t \in Range(hands[question.player]) :
          /\ hands'[question.player] = RemoveFirst(hands[question.player], t)
          /\ discarded' = Append(discarded, t)
          /\ discarders' = Append(discarders, question.player)

C25_Claims ==
    /\ discarded # <<>> /\ discarders # <<>>
    /\ discarded' = Front(discarded)
    /\ discarders' = Front(discarders)

C25_ChangeTogether ==
    C25_Discards \/ C25_Claims \/ UNCHANGED <<discarded, discarders>>

C25_HistoryPaired == [][C25_ChangeTogether]_vars /\ [](C25_SameLength)

\* a seat that claimed a discard has discarded in turn, and another seat is
\* asked about that tile
C25_Witness ==
    /\ pc = "yield" /\ question.question = "MELD_FROM_DISCARD_Q"
    /\ discarded # <<>>
    /\ discarded[Len(discarded)] = question.arrived
    /\ shown[discarders[Len(discarders)]] # <<>>
    /\ question.player # discarders[Len(discarders)]

\* C26: Turn.execute is never entered with an ending whose seat is None: at
\* the top of the loop of Hand.execute an ending without a seat has a winner
\* or comes with an empty wall, so the loop is left, and 'Must have valid
\* seat' is never raised.
C26_SeatlessEndsHand ==
    pc = "loop" /\ ending.seat = NoSeat => ending.winner # NoSeat \/ wall = <<>>

C26_ValidSeat ==
    /\ pc # "ValueError"
    /\ C26_SeatlessEndsHand

\* a turn has returned an ending without seat or winner, the wall is empty
C26_Witness ==
    /\ pc = "loop" /\ turncount > 0
    /\ ending.seat = NoSeat /\ ending.winner = NoSeat
    /\ wall = <<>>

\* C27: a seat is asked MELD_FROM_DISCARD_Q at most once about a discard.
\* The question is only asked while the discarder's turn walks once through
\* the seats with a claim, never of the discarder and never of a seat asked
\* earlier in the walk; the turn that follows starts without asking it, so
\* the next seat is not asked about the same discard again.
C27_Asked == {frame.pairs[i].player : i \in 1..(frame.askidx - 1)}

C27_AskedOnce ==
    pc = "yield" /\ question.question = "MELD_FROM_DISCARD_Q" =>
       /\ frame.site = "others"
       /\ frame.player = discarders[Len(discarders)]
       /\ question.arrived = discarded[Len(discarded)]
       /\ question.player = frame.pairs[frame.askidx].player
       /\ question.player # frame.player
       /\ question.player \notin C27_Asked

C27_Arbitrating(p, f) == p \in {"ask", "yield"} /\ f.site = "others"

C27_OneWalk ==
    /\ C27_Arbitrating(pc, frame) /\ C27_Arbitrating(pc', frame') =>
          /\ frame'.pairs = frame.pairs /\ discarded' = discarded
          /\ frame'.askidx = IF pc = "yield" THEN frame.askidx + 1 ELSE frame.askidx
    /\ pc = "loop" => ~(pc' = "yield" /\ question'.question = "MELD_FROM_DISCARD_Q")
    /\ pc = "loop" /\ pc' = "melded" /\ ending.jumped_with = NoMeld => discarded' = discarded

C27_AskedAtMostOnce == [][C27_OneWalk]_vars /\ [](C27_AskedOnce)

\* the next seat had a claim on the discard, nobody took the tile, and the
\* next seat has started its turn and is about to draw
C27_Witness ==
    /\ pc = "draw" /\ frame.tries = 0 /\ wall # <<>>
    /\ ending.offered /\ ending.seat = frame.player
    /\ ending.discard = discarded[Len(discarded)]

\* C28: a hand whose questions keep being answered returns a HandEnding.
\* A turn entered on a claim leaves the claiming seat with fewer concealed
\* tiles; every pass of the draw loop takes a tile off the wall or ends the
\* hand on an empty wall; no step adds a tile to the wall, and the hand
\* eventually returns.
C28_Returned == pc = "done" /\ result # NoResult

C28_TurnProgress ==
    /\ Len(wall') <= Len(wall)
    /\ pc = "loop" /\ pc' = "melded" /\ ending.jumped_with # NoMeld =>
          Len(hands'[ending.seat]) < Len(hands[ending.seat])
    /\ pc = "loop" /\ pc' = "melded" /\ ending.jumped_with = NoMeld =>
          frame'.meld = NoMeld
    /\ pc = "melded" /\ frame.meld = NoMeld => pc' = "draw"
    /\ pc = "draw" =>
          IF wall = <<>>
          THEN pc' = "loop" /\ ending'.winner = NoSeat
          ELSE Len(wall') < Len(wall)

C28_HandTerminates == [][C28_TurnProgress]_vars /\ <>C28_Returned

\* a hand that went through a claimed discard and ended in a tie
C28_Witness ==
    /\ C28_Returned
    /\ result.result = "GOULASH"
    /\ wall = <<>>
    /\ \E s \in Seats : twelve_piece[s] # NoSeat \/ gave_kong[s] # NoSeat

\* ------------------------------------------------ who pays a won hand

\* a won HandEnding has been returned
C29_Won == pc = "done" /\ result.result \in {"NORMAL", "DEALER_WON"}

\* the Wu of the ending names a discarder, or its flags carry SELF_DRAW
C29_Attributed ==
    \/ result.wu.discarder # NoSeat
    \/ "SELF_DRAW" \in WuFlags(result.wu, result.choice, NoWinds)

\* C29: every winning Wu that the hand returns has a discarder (a win on a
\* discard, a robbed Kong, an attributed penalty) or carries SELF_DRAW, so
\* points() never reaches its `Somehow, nobody gets points` ValueError
C29_PointsAttributed ==
    /\ C29_Won => C29_Attributed
    /\ score # NoScore => score.raised # "ValueError"

\* points() has paid a win on a discard: the Wu has a discarder and no
\* SELF_DRAW, and the discarder pays
C29_Witness ==
    /\ C29_Won
    /\ score # NoScore /\ score.raised = "" /\ ~score.none
    /\ result.wu.discarder # NoSeat
    /\ "SELF_DRAW" \notin score.flags
    /\ "ROBBING_KONG" \notin score.flags
    /\ score.points[result.wu.discarder + 1] < 0

\* ------------------------------------------------ the kong-giver record

\* the turn under way, or about to start, is the one seat s entered by
\* claiming a Kong from prev_seat's discard
C30_KongTurnOf(s) ==
    /\ ending.seat = s
    /\ ending.jumped_with # NoMeld
    /\ ending.jumped_with.type = "Kong"
    /\ gave_kong[s] = ending.prev_seat

\* the hand is over: a winner or the all-None ending is in `ending`
C30_HandOver == ending.winner # NoSeat \/ ending.seat = NoSeat

\* a record is written only by a Kong answer to MELD_FROM_DISCARD_Q, for the
\* answering seat and naming the discarder
C30_WrittenByClaim ==
    \A s \in Seats :
       gave_kong'[s] # gave_kong[s] /\ gave_kong'[s] # NoSeat
       => /\ AskedAboutDiscard
          /\ question.player = s
          /\ frame'.answer.type = "Kong"
          /\ gave_kong'[s] = frame.player

\* a record belongs to the seat whose Kong turn it is, unless the hand ended
\* inside that turn
C30_RecordOfKongTurn ==
    \A s \in Seats : gave_kong[s] # NoSeat => C30_KongTurnOf(s) \/ C30_HandOver

\* while DISCARD_WHAT is pending the acting seat has no record
C30_NoneAtDiscard ==
    pc = "yield" /\ question.question = "DISCARD_WHAT"
    => gave_kong[question.player] = NoSeat

\* C30: a kong-giver record exists only for the seat that claimed a Kong from
\* a discard and only until that seat's draw loop ends without a further
\* Kong; whenever DISCARD_WHAT is pending the acting seat has no record, so
\* GAVE_KONG is never attributed to a Kong claimed in an earlier turn
C30_RecordLifetime ==
    /\ [][C30_WrittenByClaim]_vars
    /\ [](C30_RecordOfKongTurn /\ C30_NoneAtDiscard)

\* the seat that claimed a Kong from a first-time discard has left its draw
\* loop and is asked DISCARD_WHAT: its record is gone
C30_Witness ==
    /\ pc = "yield" /\ question.question = "DISCARD_WHAT"
    /\ ending.seat = question.player
    /\ ending.jumped_with # NoMeld
    /\ ending.jumped_with.type = "Kong"
    /\ ending.discard \notin Range(discarded)
    /\ ending.jumped_with \in Range(shown[question.player])
    /\ gave_kong[question.player] = NoSeat

====
